---- MODULE Spec2Model ----
(***************************************************************************)
(* Intelligent Order Parameter Prefill: the prefill engine (urgency        *)
(* scorer, field resolvers, scenario classifier, why-not explainer) as the *)
(* rulebook of the repository describes it, and the rule configuration     *)
(* that the settings page edits.                                           *)
(*                                                                         *)
(* Units.  Times of day are minutes after midnight (14:00 = 840).          *)
(* Percentages of ADV are kept exact as the pair (quantity, adv).          *)
(* Volatility is in hundredths of a percent (1.8% = 180).  Urgency deltas  *)
(* and scores before truncation are in hundredths of a point, so that the  *)
(* risk-aversion tilt (50 - ra) * 0.15 is exact.  Prices and tick sizes    *)
(* are in hundredths of a rupee.  Confidences are in percent.              *)
(***************************************************************************)
EXTENDS Integers, Sequences, FiniteSets, TLC

\* The engine and the service: the request being served, the response, the
\* rule configuration in force, the request log and the position.
VARIABLES inp, out, ruleConfig, log, pc

\* The order ticket: the dialog, its form, the state of Smart Prefill, the
\* pending debounce timers and the prefill requests in flight.
VARIABLES open, form, prefillResult, prefilling, prefilledFields, prefillEnabled,
          overriddenFields, urgencyManual, urgencyDebounce, qtyDebounce, notesDebounce,
          pending, requests, settled, manual, lastIssued

\* The rule-configuration page: the tab shown, the edits not yet saved and
\* the save mutation.
VARIABLES activeTab, edits, saveMutation

settingsVars == <<activeTab, edits, saveMutation>>

ticketVars ==
    <<open, form, prefillResult, prefilling, prefilledFields, prefillEnabled,
      overriddenFields, urgencyManual, urgencyDebounce, qtyDebounce, notesDebounce,
      pending, requests, settled, manual, lastIssued>>

vars ==
    <<inp, out, ruleConfig, log, pc,
      open, form, prefillResult, prefilling, prefilledFields, prefillEnabled,
      overriddenFields, urgencyManual, urgencyDebounce, qtyDebounce, notesDebounce,
      pending, requests, settled, manual, lastIssued,
      activeTab, edits, saveMutation>>

\* ------------------------------------------------------------------------
\* Program constants
\* ------------------------------------------------------------------------
MarketOpen == 555

MarketClose == 930

UrgencyBaseline == 50

NoValue == -1

Algos == {"NONE", "POV", "VWAP", "ICEBERG"}

ClientTags == {"eod_compliance", "hft", "stealth", "conservative", "arrival_price", "none"}

\* ------------------------------------------------------------------------
\* Arithmetic helpers
\* ------------------------------------------------------------------------
Min2(a, b) == IF a < b THEN a ELSE b

Max2(a, b) == IF a > b THEN a ELSE b

\* Python int(): truncation toward zero of x / d, d > 0.
TruncDiv(x, d) == IF x >= 0 THEN x \div d ELSE -((-x) \div d)

RECURSIVE SumDeltas(_)
SumDeltas(s) == IF s = <<>> THEN 0 ELSE Head(s).delta + SumDeltas(Tail(s))

\* ------------------------------------------------------------------------
\* Order notes NLP.  A notes text is the set of the recognised phrases it
\* contains (lower-cased); the empty set is an empty or unrecognised text.
\* ------------------------------------------------------------------------
DeadlinePhrases == {"by 2pm", "by 14:30", "before 3pm", "by close", "by end of day", "by 10am"}

deadline_of(p) ==
    CASE p = "by 2pm" -> 840
      [] p = "by 14:30" -> 870
      [] p = "before 3pm" -> 900
      [] p = "by close" -> MarketClose
      [] p = "by end of day" -> MarketClose
      [] p = "by 10am" -> 600
      [] OTHER -> NoValue

parse_order_notes(notes) ==
    [ algo_hint |->
        IF "vwap" \in notes THEN "VWAP"
        ELSE IF notes \cap {"pov", "percentage of volume"} # {} THEN "POV"
        ELSE IF notes \cap {"iceberg", "hidden"} # {} THEN "ICEBERG"
        ELSE "",
      deadline |->
        IF notes \cap DeadlinePhrases = {} THEN NoValue
        ELSE deadline_of(CHOOSE p \in notes \cap DeadlinePhrases :
                 \A q \in notes \cap DeadlinePhrases : deadline_of(p) <= deadline_of(q)),
      urgency_hint |->
        IF notes \cap {"urgent", "asap", "rush", "critical", "time sensitive"} # {} THEN "high"
        ELSE IF notes \cap {"patient", "no rush", "stealth", "low footprint"} # {} THEN "low"
        ELSE "",
      get_done |->
        notes \cap {"must be done", "must complete", "get done", "ensure fill", "guaranteed fill"} # {},
      benchmark |->
        IF "arrival" \in notes THEN "arrival"
        ELSE IF "vwap" \in notes /\ "benchmark" \in notes THEN "vwap"
        ELSE IF notes \cap {"close", "closing"} # {} /\ "benchmark" \in notes THEN "close"
        ELSE "",
      tif_hint |->
        IF notes \cap {"ioc", "immediate or cancel"} # {} THEN "IOC"
        ELSE IF notes \cap {"fok", "fill or kill"} # {} THEN "FOK"
        ELSE IF notes \cap {"gfd", "good for day"} # {} THEN "GFD"
        ELSE "" ]

\* ------------------------------------------------------------------------
\* Market and instrument helpers
\* ------------------------------------------------------------------------
\* Minutes until 15:30, never negative.
time_to_close(now) == IF now >= MarketClose THEN 0 ELSE MarketClose - now

\* size_pct_adv = qty / adv * 100, compared exactly with a whole percentage.
SizeGT(i, p) == i.qty * 100 > p * i.adv

SizeLT(i, p) == i.qty * 100 < p * i.adv

SizeGE(i, p) == ~SizeLT(i, p)

\* ------------------------------------------------------------------------
\* 1. Urgency score
\* ------------------------------------------------------------------------
\* urgency_breakdown whose time-to-close brackets all fire when they match.
urgency_breakdown_cumulative(ttc, tag, i, vol, ni, ra, now) ==
    LET Entry(f, d) == << [factor |-> f, delta |-> d * 100] >>
        timeAdj ==
            (IF ttc < 10 THEN Entry("time_to_close", 35) ELSE <<>>)
              \o (IF ttc < 20 THEN Entry("time_to_close", 25) ELSE <<>>)
              \o (IF ttc < 30 THEN Entry("time_to_close", 18) ELSE <<>>)
              \o (IF ttc < 60 THEN Entry("time_to_close", 10) ELSE <<>>)
              \o (IF ttc > 240 THEN Entry("time_to_close", -10) ELSE <<>>)
        tagAdj ==
            CASE tag = "eod_compliance" -> Entry("client_tag", 12)
              [] tag = "hft" -> Entry("client_tag", 18)
              [] tag = "stealth" -> Entry("client_tag", -12)
              [] tag = "conservative" -> Entry("client_tag", -15)
              [] tag = "arrival_price" -> Entry("client_tag", 5)
              [] OTHER -> <<>>
        sizeAdj ==
            IF SizeGT(i, 20) THEN Entry("order_size", -12)
            ELSE IF SizeGT(i, 10) THEN Entry("order_size", -5)
            ELSE IF SizeLT(i, 2) THEN Entry("order_size", 10)
            ELSE IF SizeLT(i, 5) THEN Entry("order_size", 5)
            ELSE <<>>
        volAdj ==
            IF vol > 300 THEN Entry("volatility", -8)
            ELSE IF vol < 150 THEN Entry("volatility", 5)
            ELSE <<>>
        hintAdj ==
            IF ni.urgency_hint = "high" THEN Entry("notes_urgency", 20)
            ELSE IF ni.urgency_hint = "low" THEN Entry("notes_patience", -15)
            ELSE <<>>
        doneAdj == IF ni.get_done THEN Entry("notes_get_done", 12) ELSE <<>>
        deadlineAdj ==
            IF ni.deadline = NoValue THEN <<>>
            ELSE IF ni.deadline - now < 30 THEN Entry("notes_deadline", 20)
            ELSE IF ni.deadline - now < 60 THEN Entry("notes_deadline", 10)
            ELSE <<>>
        riskAdj ==
            IF ra = 50 THEN <<>>
            ELSE << [factor |-> "risk_aversion", delta |-> (50 - ra) * 15] >>
    IN  timeAdj \o tagAdj \o sizeAdj \o volAdj \o hintAdj \o doneAdj \o deadlineAdj \o riskAdj

\* One entry per factor that fires: [factor, delta in hundredths of a point].
urgency_breakdown(ttc, tag, i, vol, ni, ra, now) ==
    LET Entry(f, d) == << [factor |-> f, delta |-> d * 100] >>
        timeAdj ==
            IF ttc < 10 THEN Entry("time_to_close", 35)
            ELSE IF ttc < 20 THEN Entry("time_to_close", 25)
            ELSE IF ttc < 30 THEN Entry("time_to_close", 18)
            ELSE IF ttc < 60 THEN Entry("time_to_close", 10)
            ELSE IF ttc > 240 THEN Entry("time_to_close", -10)
            ELSE <<>>
        tagAdj ==
            CASE tag = "eod_compliance" -> Entry("client_tag", 12)
              [] tag = "hft" -> Entry("client_tag", 18)
              [] tag = "stealth" -> Entry("client_tag", -12)
              [] tag = "conservative" -> Entry("client_tag", -15)
              [] tag = "arrival_price" -> Entry("client_tag", 5)
              [] OTHER -> <<>>
        sizeAdj ==
            IF SizeGT(i, 20) THEN Entry("order_size", -12)
            ELSE IF SizeGT(i, 10) THEN Entry("order_size", -5)
            ELSE IF SizeLT(i, 2) THEN Entry("order_size", 10)
            ELSE IF SizeLT(i, 5) THEN Entry("order_size", 5)
            ELSE <<>>
        volAdj ==
            IF vol > 300 THEN Entry("volatility", -8)
            ELSE IF vol < 150 THEN Entry("volatility", 5)
            ELSE <<>>
        hintAdj ==
            IF ni.urgency_hint = "high" THEN Entry("notes_urgency", 20)
            ELSE IF ni.urgency_hint = "low" THEN Entry("notes_patience", -15)
            ELSE <<>>
        doneAdj == IF ni.get_done THEN Entry("notes_get_done", 12) ELSE <<>>
        deadlineAdj ==
            IF ni.deadline = NoValue THEN <<>>
            ELSE IF ni.deadline - now < 30 THEN Entry("notes_deadline", 20)
            ELSE IF ni.deadline - now < 60 THEN Entry("notes_deadline", 10)
            ELSE <<>>
        riskAdj ==
            IF ra = 50 THEN <<>>
            ELSE << [factor |-> "risk_aversion", delta |-> (50 - ra) * 15] >>
    IN  timeAdj \o tagAdj \o sizeAdj \o volAdj \o hintAdj \o doneAdj \o deadlineAdj \o riskAdj

\* compute_urgency_score without the clamp to [0,100].
compute_urgency_score_unclamped(ttc, tag, i, vol, ni, ra, now) ==
    TruncDiv(UrgencyBaseline * 100
               + SumDeltas(urgency_breakdown(ttc, tag, i, vol, ni, ra, now)), 100)

\* compute_urgency_score that rounds to the nearest integer instead of
\* truncating.
compute_urgency_score_rounded(ttc, tag, i, vol, ni, ra, now) ==
    LET score == UrgencyBaseline * 100
                   + SumDeltas(urgency_breakdown(ttc, tag, i, vol, ni, ra, now))
    IN  Max2(0, Min2(100, (score + 50) \div 100))

\* score = 50 + sum of the adjustments; return max(0, min(100, int(score))).
compute_urgency_score(ttc, tag, i, vol, ni, ra, now) ==
    LET score == UrgencyBaseline * 100
                   + SumDeltas(urgency_breakdown(ttc, tag, i, vol, ni, ra, now))
    IN  Max2(0, Min2(100, TruncDiv(score, 100)))

\* ------------------------------------------------------------------------
\* Rule configuration (admin-editable thresholds, one value per key)
\* ------------------------------------------------------------------------
ConfigKeys == {"get_done_urgency", "limit_default_bps"}

DefaultRuleConfig ==
    [k \in ConfigKeys |-> IF k = "get_done_urgency" THEN 75 ELSE 8]

\* ------------------------------------------------------------------------
\* 16. Historical blending: statistics over the last orders of the
\* client+symbol pair (most recent first).
\* ------------------------------------------------------------------------
CountOf(s, f, v) == Cardinality({k \in DOMAIN s : s[k][f] = v})

\* Most common value of field f; the first one met wins a tie.
ModeOf(s, f) ==
    LET best == CHOOSE k \in DOMAIN s :
                   /\ \A j \in DOMAIN s : CountOf(s, f, s[j][f]) <= CountOf(s, f, s[k][f])
                   /\ \A j \in DOMAIN s :
                         CountOf(s, f, s[j][f]) = CountOf(s, f, s[k][f]) => k <= j
    IN  s[best][f]

RECURSIVE SumField(_, _)
SumField(s, f) == IF s = <<>> THEN 0 ELSE Head(s)[f] + SumField(Tail(s), f)

\* k-th smallest value of field f, k in 1..Len(s).
KthSmallest(s, f, k) ==
    CHOOSE v \in {s[j][f] : j \in DOMAIN s} :
        /\ Cardinality({j \in DOMAIN s : s[j][f] < v}) < k
        /\ Cardinality({j \in DOMAIN s : s[j][f] <= v}) >= k

\* Median of field f: the middle value, or the mean of the two middle ones.
MedianOf(s, f) ==
    IF Len(s) % 2 = 1 THEN KthSmallest(s, f, (Len(s) + 1) \div 2)
    ELSE (KthSmallest(s, f, Len(s) \div 2) + KthSmallest(s, f, Len(s) \div 2 + 1)) \div 2

get_historical_pattern(hist) ==
    IF hist = <<>> THEN [count |-> 0]
    ELSE [ count |-> Len(hist),
           preferred_algo |-> ModeOf(hist, "algo"),
           preferred_order_type |-> ModeOf(hist, "order_type"),
           preferred_tif |-> ModeOf(hist, "tif"),
           get_done_count |-> CountOf(hist, "get_done", TRUE),
           median_quantity |-> MedianOf(hist, "qty"),
           vol_sum |-> SumField(hist, "vol") ]

\* hist_weight that grows by 0.05 per order.
hist_weight_slow(count) == Min2(30, Max2(0, (count - 2) * 5))

\* hist_weight = min(0.30, max(0, (count - 2) * 0.10)), in hundredths.
hist_weight(count) == Min2(30, Max2(0, (count - 2) * 10))

\* effective_hist_overrides with a threshold that has to be exceeded.
effective_hist_overrides_strict(vol, pat) ==
    LET cur == vol * pat.count
        avg == pat.vol_sum
    IN  /\ Max2(cur, avg) > 0
        /\ hist_weight(pat.count) * Min2(cur, avg) > 20 * Max2(cur, avg)

\* effective_hist = hist_weight * min(cur, hist) / max(cur, hist) >= 0.20,
\* with hist = vol_sum / count the average recorded volatility.
effective_hist_overrides(vol, pat) ==
    LET cur == vol * pat.count
        avg == pat.vol_sum
    IN  /\ Max2(cur, avg) > 0
        /\ hist_weight(pat.count) * Min2(cur, avg) >= 20 * Max2(cur, avg)

\* The volatility ratio divides by max(current_vol, hist_vol): with both at
\* 0 the division is by zero.
vol_ratio_undefined(vol, pat) == Max2(vol * pat.count, pat.vol_sum) = 0

\* ------------------------------------------------------------------------
\* 6. Get done (inference)
\* ------------------------------------------------------------------------
\* infer_get_done without the client-tag condition.
infer_get_done_no_tag(tag, urgency, ni, pat, cfg) ==
    \/ ni.get_done
    \/ urgency >= cfg["get_done_urgency"]
    \/ (pat.count >= 3 /\ 2 * pat.get_done_count > pat.count)

infer_get_done(tag, urgency, ni, pat, cfg) ==
    \/ ni.get_done
    \/ tag = "eod_compliance"
    \/ urgency >= cfg["get_done_urgency"]
    \/ (pat.count >= 3 /\ 2 * pat.get_done_count > pat.count)

\* ------------------------------------------------------------------------
\* 14. Scenario detection, first match wins
\* ------------------------------------------------------------------------
\* detect_scenario whose speed rule needs both high urgency and little time.
detect_scenario_speed_and(tag, get_done, ttc, i, urgency, ni) ==
    IF tag = "eod_compliance" \/ (get_done /\ ttc < 90) THEN "eod_compliance"
    ELSE IF tag = "stealth" \/ (SizeGT(i, 20) /\ urgency < 40) THEN "stealth_execution"
    ELSE IF tag = "arrival_price" \/ ni.benchmark = "arrival" THEN "arrival_benchmark"
    ELSE IF urgency > 80 /\ ttc < 15 THEN "speed_priority"
    ELSE IF urgency < 25 /\ ttc > 120 THEN "patient_accumulation"
    ELSE "standard"

detect_scenario(tag, get_done, ttc, i, urgency, ni) ==
    IF tag = "eod_compliance" \/ (get_done /\ ttc < 90) THEN "eod_compliance"
    ELSE IF tag = "stealth" \/ (SizeGT(i, 20) /\ urgency < 40) THEN "stealth_execution"
    ELSE IF tag = "arrival_price" \/ ni.benchmark = "arrival" THEN "arrival_benchmark"
    ELSE IF urgency > 80 \/ ttc < 15 THEN "speed_priority"
    ELSE IF urgency < 25 /\ ttc > 120 THEN "patient_accumulation"
    ELSE "standard"

\* ------------------------------------------------------------------------
\* 2. Algo type: priority chain A (notes), B (urgent and small), C (client
\* tag), D (urgency x size matrix), then E (historical blending).
\* ------------------------------------------------------------------------
\* The rulebook gives the confidence of the matrix as a range (60-75%) and
\* leaves the tier edges open; a size on an edge falls in the tier below a
\* strict ">" and above a strict "<".
algo_matrix(urgency, i) ==
    IF urgency >= 75 THEN
        IF SizeGE(i, 3) THEN [algo |-> "POV", confidence |-> 75, rule |-> "matrix"]
        ELSE [algo |-> "NONE", confidence |-> 75, rule |-> "matrix"]
    ELSE IF urgency <= 25 THEN
        IF SizeGT(i, 15) THEN [algo |-> "ICEBERG", confidence |-> 70, rule |-> "matrix"]
        ELSE IF SizeGE(i, 5) THEN [algo |-> "VWAP", confidence |-> 65, rule |-> "matrix"]
        ELSE [algo |-> "NONE", confidence |-> 60, rule |-> "matrix"]
    ELSE
        IF SizeGT(i, 20) THEN [algo |-> "ICEBERG", confidence |-> 70, rule |-> "matrix"]
        ELSE IF SizeGT(i, 10) THEN [algo |-> "VWAP", confidence |-> 65, rule |-> "matrix"]
        ELSE IF SizeGE(i, 3) THEN [algo |-> "POV", confidence |-> 65, rule |-> "matrix"]
        ELSE [algo |-> "NONE", confidence |-> 60, rule |-> "matrix"]

\* algo_rules with the urgent-and-small rule and the tag rules tried before
\* the notes hint.
algo_rules_hint_last(tag, urgency, i, ni) ==
    IF urgency >= 85 /\ SizeLT(i, 5) THEN [algo |-> "NONE", confidence |-> 85, rule |-> "urgent_small"]
    ELSE IF tag = "eod_compliance" THEN [algo |-> "VWAP", confidence |-> 90, rule |-> "tag"]
    ELSE IF tag = "stealth" THEN [algo |-> "ICEBERG", confidence |-> 90, rule |-> "tag"]
    ELSE IF tag = "arrival_price" THEN [algo |-> "POV", confidence |-> 85, rule |-> "tag"]
    ELSE IF tag = "hft" /\ SizeLT(i, 2) THEN [algo |-> "NONE", confidence |-> 85, rule |-> "tag"]
    ELSE IF ni.algo_hint # "" THEN [algo |-> ni.algo_hint, confidence |-> 95, rule |-> "notes"]
    ELSE algo_matrix(urgency, i)

\* algo_rules with the client-tag rules tried before the urgent-and-small
\* rule.
algo_rules_tags_first(tag, urgency, i, ni) ==
    IF ni.algo_hint # "" THEN [algo |-> ni.algo_hint, confidence |-> 95, rule |-> "notes"]
    ELSE IF tag = "eod_compliance" THEN [algo |-> "VWAP", confidence |-> 90, rule |-> "tag"]
    ELSE IF tag = "stealth" THEN [algo |-> "ICEBERG", confidence |-> 90, rule |-> "tag"]
    ELSE IF tag = "arrival_price" THEN [algo |-> "POV", confidence |-> 85, rule |-> "tag"]
    ELSE IF tag = "hft" /\ SizeLT(i, 2) THEN [algo |-> "NONE", confidence |-> 85, rule |-> "tag"]
    ELSE IF urgency >= 85 /\ SizeLT(i, 5) THEN [algo |-> "NONE", confidence |-> 85, rule |-> "urgent_small"]
    ELSE algo_matrix(urgency, i)

algo_rules(tag, urgency, i, ni) ==
    IF ni.algo_hint # "" THEN [algo |-> ni.algo_hint, confidence |-> 95, rule |-> "notes"]
    ELSE IF urgency >= 85 /\ SizeLT(i, 5) THEN [algo |-> "NONE", confidence |-> 85, rule |-> "urgent_small"]
    ELSE IF tag = "eod_compliance" THEN [algo |-> "VWAP", confidence |-> 90, rule |-> "tag"]
    ELSE IF tag = "stealth" THEN [algo |-> "ICEBERG", confidence |-> 90, rule |-> "tag"]
    ELSE IF tag = "arrival_price" THEN [algo |-> "POV", confidence |-> 85, rule |-> "tag"]
    ELSE IF tag = "hft" /\ SizeLT(i, 2) THEN [algo |-> "NONE", confidence |-> 85, rule |-> "tag"]
    ELSE algo_matrix(urgency, i)

\* blend_algo_history that adds the history weight to the confidence of a
\* pick it agrees with instead of averaging.
blend_algo_history_additive(pick, vol, pat) ==
    IF pick.rule = "notes" \/ pat.count < 3 THEN pick
    ELSE IF pat.preferred_algo = pick.algo THEN
        [pick EXCEPT !.confidence = pick.confidence + hist_weight(pat.count)]
    ELSE IF effective_hist_overrides(vol, pat) THEN
        [pick EXCEPT !.algo = pat.preferred_algo, !.rule = "history"]
    ELSE pick

\* Priority E.  History never touches a notes hint; it confirms a rule-based
\* pick it agrees with (rule weight 1 - w, history weight w) and replaces a
\* rule-based pick it disagrees with when the market conditions are similar
\* enough.
blend_algo_history(pick, vol, pat) ==
    IF pick.rule = "notes" \/ pat.count < 3 THEN pick
    ELSE IF pat.preferred_algo = pick.algo THEN
        [pick EXCEPT !.confidence =
            ((100 - hist_weight(pat.count)) * pick.confidence
               + hist_weight(pat.count) * 100) \div 100]
    ELSE IF effective_hist_overrides(vol, pat) THEN
        [pick EXCEPT !.algo = pat.preferred_algo, !.rule = "history"]
    ELSE pick

\* Priority F.  Filled orders of all clients for the symbol whose quantity
\* is within 0.4x-2.5x of the current order; the signal is the most common
\* algo when it has a share of at least 60% across at least 5 such orders,
\* and "" otherwise.
get_cross_client_patterns(cross, qty) ==
    LET similar == {k \in DOMAIN cross :
                       /\ cross[k].qty * 10 >= qty * 4
                       /\ cross[k].qty * 10 <= qty * 25}
        share(a) == Cardinality({k \in similar : cross[k].algo = a})
        top == CHOOSE a \in Algos : \A b \in Algos : share(b) <= share(a)
    IN  [ total |-> Cardinality(similar),
          signal |->
            IF Cardinality(similar) >= 5 /\ share(top) * 100 >= 60 * Cardinality(similar)
            THEN top ELSE "" ]

\* resolve_algo_type that lets the cross-client signal replace a pick the
\* notes did not ask for.
resolve_algo_type_crowd(tag, urgency, i, vol, ni, pat) ==
    LET pick == blend_algo_history(algo_rules(tag, urgency, i, ni), vol, pat)
        signal == get_cross_client_patterns(i.cross, i.qty).signal
    IN  IF pick.rule # "notes" /\ signal # "" THEN [pick EXCEPT !.algo = signal]
        ELSE pick

\* The cross-client signal only annotates the explanation (see
\* compute_prefill); it takes no part in the choice.
resolve_algo_type(tag, urgency, i, vol, ni, pat) ==
    blend_algo_history(algo_rules(tag, urgency, i, ni), vol, pat)

\* ------------------------------------------------------------------------
\* 3. Order type
\* ------------------------------------------------------------------------
\* resolve_order_type with the urgency and time-to-close rules tried before
\* the algo rule.
resolve_order_type_urgency_first(algo, urgency, ttc, vol, pat) ==
    IF pat.count >= 5 THEN [value |-> pat.preferred_order_type, confidence |-> 70]
    ELSE IF urgency >= 85 THEN [value |-> "MARKET", confidence |-> 85]
    ELSE IF ttc < 15 THEN [value |-> "MARKET", confidence |-> 85]
    ELSE IF algo # "NONE" THEN [value |-> "LIMIT", confidence |-> 80]
    ELSE IF vol > 300 THEN [value |-> "LIMIT", confidence |-> 75]
    ELSE [value |-> "LIMIT", confidence |-> 60]

resolve_order_type(algo, urgency, ttc, vol, pat) ==
    IF pat.count >= 5 THEN [value |-> pat.preferred_order_type, confidence |-> 70]
    ELSE IF algo # "NONE" THEN [value |-> "LIMIT", confidence |-> 80]
    ELSE IF urgency >= 85 THEN [value |-> "MARKET", confidence |-> 85]
    ELSE IF ttc < 15 THEN [value |-> "MARKET", confidence |-> 85]
    ELSE IF vol > 300 THEN [value |-> "LIMIT", confidence |-> 75]
    ELSE [value |-> "LIMIT", confidence |-> 60]

\* ------------------------------------------------------------------------
\* 4. Limit price
\* ------------------------------------------------------------------------
limit_offset_bps(urgency, ttc, vol, cfg) ==
    IF urgency >= 75 THEN 18
    ELSE IF urgency >= 50 THEN 12
    ELSE IF ttc < 30 THEN 15
    ELSE IF vol > 250 THEN 12
    ELSE cfg["limit_default_bps"]

\* round(price / tick) * tick with halves rounded up, for the price
\* ltp + delta / 10000.  The whole ticks of ltp are split off first so that
\* the products stay small.
round_to_tick(ltp, delta, tick) ==
    LET whole == ltp \div tick
        rest == ltp % tick
    IN  (whole + (rest * 10000 + delta + 5000 * tick) \div (10000 * tick)) * tick

\* BUY: ltp * (1 + offset / 10000); SELL: ltp * (1 - offset / 10000).
compute_limit_price(direction, ltp, tick, offset) ==
    IF direction = "BUY" THEN round_to_tick(ltp, ltp * offset, tick)
    ELSE round_to_tick(ltp, -(ltp * offset), tick)

resolve_limit_price(order_type, direction, ltp, tick, urgency, ttc, vol, cfg) ==
    IF order_type = "LIMIT" /\ ltp > 0
    THEN compute_limit_price(direction, ltp, tick, limit_offset_bps(urgency, ttc, vol, cfg))
    ELSE NoValue

\* ------------------------------------------------------------------------
\* 5. Time in force
\* ------------------------------------------------------------------------
\* tif_rules that applies the direct-order table to algo orders as well.
tif_rules_direct_only(algo, urgency, get_done, ttc) ==
    IF urgency >= 90 THEN "IOC"
    ELSE IF urgency >= 80 THEN "FOK"
    ELSE IF urgency >= 65 THEN "IOC"
    ELSE "GFD"

tif_rules(algo, urgency, get_done, ttc) ==
    IF algo = "NONE" THEN
        IF urgency >= 90 THEN "IOC"
        ELSE IF urgency >= 80 THEN "FOK"
        ELSE IF urgency >= 65 THEN "IOC"
        ELSE "GFD"
    ELSE
        IF urgency >= 85 /\ get_done THEN "GFD"
        ELSE IF urgency >= 70 THEN "GFD"
        ELSE IF ttc > 375 THEN "GTC"
        ELSE "GFD"

resolve_tif(algo, urgency, get_done, ttc, ni, pat) ==
    IF ni.tif_hint # "" THEN [value |-> ni.tif_hint, confidence |-> 95]
    ELSE IF pat.count >= 3 THEN [value |-> pat.preferred_tif, confidence |-> 75]
    ELSE [value |-> tif_rules(algo, urgency, get_done, ttc), confidence |-> 85]

\* ------------------------------------------------------------------------
\* 7. Time window (algo orders only)
\* ------------------------------------------------------------------------
resolve_start_time(now) ==
    LET rounded == ((now + 4) \div 5) * 5
    IN  IF rounded < MarketOpen THEN MarketOpen
        ELSE IF rounded > MarketClose THEN MarketClose - 30
        ELSE rounded

window_fraction(urgency) == IF urgency >= 70 THEN 35 ELSE IF urgency >= 50 THEN 55 ELSE 75

\* resolve_end_time with the get-done / compliance rule tried before the
\* notes deadline.
resolve_end_time_close_first(start, tag, get_done, ttc, urgency, ni) ==
    IF tag = "eod_compliance" \/ get_done THEN MarketClose
    ELSE IF ni.deadline # NoValue THEN ni.deadline
    ELSE IF ttc < 60 THEN MarketClose
    ELSE Min2(MarketClose, start + (window_fraction(urgency) * ttc) \div 100)

resolve_end_time(start, tag, get_done, ttc, urgency, ni) ==
    IF ni.deadline # NoValue THEN ni.deadline
    ELSE IF tag = "eod_compliance" \/ get_done THEN MarketClose
    ELSE IF ttc < 60 THEN MarketClose
    ELSE Min2(MarketClose, start + (window_fraction(urgency) * ttc) \div 100)

\* ------------------------------------------------------------------------
\* 11. ICEBERG parameters
\* ------------------------------------------------------------------------
\* min(qty * 8%, avg_trade_size * 1.5), floored at 100 shares.
iceberg_display_quantity(qty, ats) ==
    Max2(100, Min2((qty * 8) \div 100, (ats * 3) \div 2))

\* ------------------------------------------------------------------------
\* 12. Quantity hint (only when the trader has entered no quantity)
\* ------------------------------------------------------------------------
\* quantity_hint_confidence without the cap.
quantity_hint_confidence_uncapped(count) == 40 + count * 4

\* confidence = 0.4 + min(0.3, order_count * 0.04), in percent.
quantity_hint_confidence(count) == 40 + Min2(30, count * 4)

resolve_quantity_hint(qty, pat) ==
    IF qty = 0 /\ pat.count >= 1
    THEN [value |-> pat.median_quantity, confidence |-> quantity_hint_confidence(pat.count)]
    ELSE [value |-> NoValue, confidence |-> NoValue]

\* ------------------------------------------------------------------------
\* 15. Why-not explanations: one reason per algo that was not chosen
\* ------------------------------------------------------------------------
why_not_reason(a, chosen, tag, i, ttc, urgency) ==
    CASE a = "NONE" /\ SizeGT(i, 3) -> "size_needs_algo"
      [] a = "POV" /\ tag = "eod_compliance" -> "no_completion_guarantee"
      [] a = "POV" /\ tag # "eod_compliance" /\ SizeGT(i, 20) -> "signals_large_order"
      [] a = "VWAP" /\ ttc < 20 -> "too_close_to_close"
      [] a = "VWAP" /\ ttc >= 20 /\ tag = "stealth" /\ SizeGT(i, 15) -> "predictable_pattern"
      [] a = "ICEBERG" /\ SizeLT(i, 3) -> "size_too_small"
      [] a = "ICEBERG" /\ SizeGE(i, 3) /\ urgency > 75 -> "too_slow"
      [] OTHER -> "chosen_fits_better"

\* generate_why_not that does not skip the chosen algo.
generate_why_not_all(chosen, tag, i, ttc, urgency) ==
    [a \in Algos |-> why_not_reason(a, chosen, tag, i, ttc, urgency)]

generate_why_not(chosen, tag, i, ttc, urgency) ==
    [a \in Algos \ {chosen} |-> why_not_reason(a, chosen, tag, i, ttc, urgency)]

\* ------------------------------------------------------------------------
\* 13. Order notes template: the notes assembled from the context flags,
\* as the set of its components (the text joins them with " | ").
\* ------------------------------------------------------------------------
generate_order_notes(tag, i, get_done, ni) ==
    (IF tag = "eod_compliance" THEN {"EOD compliance required"} ELSE {})
      \cup (IF tag = "stealth" THEN {"Minimize market impact - stealth execution"} ELSE {})
      \cup (IF tag = "arrival_price" THEN {"Benchmark: arrival price"} ELSE {})
      \cup (IF SizeGT(i, 15) THEN {"Large block: % of ADV"} ELSE {})
      \cup (IF get_done THEN {"Get Done: must complete"} ELSE {})
      \cup (IF ni.deadline # NoValue THEN {"Deadline: HH:MM"} ELSE {})

\* The phrases the notes parser recognises in the lower-cased text of one
\* template component.
component_phrases(c) ==
    CASE c = "Minimize market impact - stealth execution" -> {"stealth"}
      [] c = "Benchmark: arrival price" -> {"arrival", "benchmark"}
      [] c = "Get Done: must complete" -> {"get done", "must complete"}
      [] OTHER -> {}

\* The template text as the parser reads it when it comes back as notes.
template_phrases(template) == UNION {component_phrases(c) : c \in template}

\* ------------------------------------------------------------------------
\* compute_prefill: the whole engine for one request.  i is the request
\* together with the client profile, instrument, market snapshot and
\* historical records fetched for it; cfg is the rule configuration in force.
\* ------------------------------------------------------------------------
\* The blend has to compare the volatilities (3+ orders, a rule-based pick
\* that history disagrees with) and the ratio is undefined.
algo_blend_raises(pick, vol, pat) ==
    /\ pat.count >= 3
    /\ pick.rule # "notes"
    /\ pat.preferred_algo # pick.algo
    /\ vol_ratio_undefined(vol, pat)

compute_prefill(i, cfg) ==
    LET ni == parse_order_notes(i.notes)
        pat == get_historical_pattern(i.hist)
        ttc == time_to_close(i.now)
        ra == IF i.ra = NoValue THEN 50 ELSE i.ra
        breakdown == urgency_breakdown(ttc, i.tag, i, i.vol, ni, ra, i.now)
        computed == compute_urgency_score(ttc, i.tag, i, i.vol, ni, ra, i.now)
        urgency == IF i.urgency = NoValue THEN computed ELSE i.urgency
        get_done == infer_get_done(i.tag, urgency, ni, pat, cfg)
        pick == resolve_algo_type(i.tag, urgency, i, i.vol, ni, pat)
        ot == resolve_order_type(pick.algo, urgency, ttc, i.vol, pat)
        tif == resolve_tif(pick.algo, urgency, get_done, ttc, ni, pat)
        start == IF pick.algo = "NONE" THEN NoValue ELSE resolve_start_time(i.now)
        end == IF pick.algo = "NONE" THEN NoValue
               ELSE resolve_end_time(start, i.tag, get_done, ttc, urgency, ni)
        qh == resolve_quantity_hint(i.qty, pat)
    IN  IF algo_blend_raises(algo_rules(i.tag, urgency, i, ni), i.vol, pat)
        THEN [error |-> "ZeroDivisionError"]
        ELSE
        [ suggestions |->
            [ algo_type |-> pick.algo,
              order_type |-> ot.value,
              limit_price |-> resolve_limit_price(ot.value, i.direction, i.ltp, i.tick,
                                                  urgency, ttc, i.vol, cfg),
              tif |-> tif.value,
              get_done |-> get_done,
              start_time |-> start,
              end_time |-> end,
              display_quantity |->
                IF pick.algo = "ICEBERG" THEN iceberg_display_quantity(i.qty, i.ats)
                ELSE NoValue,
              quantity |-> qh.value,
              order_notes |-> generate_order_notes(i.tag, i, get_done, ni) ],
          confidence |->
            IF qh.value = NoValue
            THEN [ algo_type |-> pick.confidence,
                   order_type |-> ot.confidence,
                   tif |-> tif.confidence ]
            ELSE [ algo_type |-> pick.confidence,
                   order_type |-> ot.confidence,
                   tif |-> tif.confidence,
                   quantity |-> qh.confidence ],
          algo_rule |-> pick.rule,
          cross_client_signal |-> get_cross_client_patterns(i.cross, i.qty).signal,
          urgency_score |-> urgency,
          computed_urgency |-> computed,
          urgency_breakdown |-> breakdown,
          scenario_tag |-> detect_scenario(i.tag, get_done, ttc, i, urgency, ni),
          why_not |-> generate_why_not(pick.algo, i.tag, i, ttc, urgency) ]

\* ------------------------------------------------------------------------
\* Order ticket: initial state of the component.  Numeric and time inputs
\* hold the number they show, and NoValue when they are empty.
\* ------------------------------------------------------------------------
NoOutput == [none |-> TRUE]

DEFAULT_FORM ==
    [ client_id |-> "", symbol |-> "", order_type |-> "MARKET", quantity |-> NoValue,
      limit_price |-> NoValue, algo_type |-> "NONE", start_time |-> NoValue,
      end_time |-> NoValue, tif |-> "GFD", urgency |-> 50, get_done |-> FALSE,
      display_quantity |-> 5000, order_notes |-> {} ]

\* No debounce timer pending.
NoTimer == [none |-> TRUE]

\* No request sent yet.
NoRequest == [none |-> TRUE]

\* No field changed by hand in the current client+symbol context.
NoManual == [f \in {} |-> NoValue]

\* No edit that is not saved yet.
NoEdits == [k \in {} |-> NoValue]

\* The save mutation before its first use.
IdleMutation == [status |-> "idle"]

\* The rule-configuration page before it is first shown.
SettingsUnmounted ==
    /\ activeTab = "urgency"
    /\ edits = NoEdits
    /\ saveMutation = IdleMutation

\* The ticket before the dialog is first opened.
TicketUnmounted ==
    /\ open = FALSE
    /\ form = DEFAULT_FORM
    /\ prefillResult = NoOutput
    /\ prefilling = FALSE
    /\ prefilledFields = {}
    /\ prefillEnabled = TRUE
    /\ overriddenFields = {}
    /\ urgencyManual = NoValue
    /\ urgencyDebounce = NoTimer
    /\ qtyDebounce = NoTimer
    /\ notesDebounce = NoTimer
    /\ pending = {}
    /\ requests = 0
    /\ settled = "none"
    /\ manual = NoManual
    /\ lastIssued = NoRequest

\* ------------------------------------------------------------------------
\* Input domains
\* ------------------------------------------------------------------------

\* Recorded past orders of a client+symbol pair.
HistOrder(a, ot, t, gd, v, q) ==
    [algo |-> a, order_type |-> ot, tif |-> t, get_done |-> gd, vol |-> v, qty |-> q]

\* Longest history drawn for a request (the engine fetches the last 10).
MaxHist == 5

\* Mostly VWAP limit orders placed at about 1.9% volatility.
HistMostlyVwap ==
    << HistOrder("VWAP", "LIMIT", "GFD", FALSE, 190, 4000),
       HistOrder("VWAP", "LIMIT", "GFD", FALSE, 185, 5000),
       HistOrder("VWAP", "LIMIT", "GFD", TRUE, 180, 4000),
       HistOrder("POV", "LIMIT", "GFD", FALSE, 200, 12000),
       HistOrder("VWAP", "LIMIT", "GFD", FALSE, 195, 3000),
       HistOrder("VWAP", "LIMIT", "GTC", FALSE, 190, 4000),
       HistOrder("POV", "LIMIT", "GFD", TRUE, 185, 6000) >>

\* Mostly direct market orders with get-done, placed at about 3.4% volatility.
HistDirect ==
    << HistOrder("NONE", "MARKET", "IOC", TRUE, 340, 1000),
       HistOrder("NONE", "MARKET", "IOC", TRUE, 350, 1000),
       HistOrder("ICEBERG", "LIMIT", "GFD", FALSE, 330, 25000),
       HistOrder("NONE", "MARKET", "IOC", TRUE, 345, 2000),
       HistOrder("NONE", "MARKET", "FOK", FALSE, 350, 1000),
       HistOrder("NONE", "MARKET", "IOC", TRUE, 340, 1500),
       HistOrder("ICEBERG", "LIMIT", "GFD", FALSE, 335, 20000) >>

HistVals ==
    { SubSeq(h, 1, n) : h \in {HistMostlyVwap, HistDirect}, n \in 0..Min2(MaxHist, 7) }

NotesVals ==
    { {},
      {"vwap", "must complete", "by 2pm"},
      {"must complete", "by 2pm"},
      {"urgent", "asap"},
      {"iceberg", "no rush"},
      {"pov", "arrival", "ioc"},
      {"get done", "by 10am"} }

\* 09:00 (before the open), 11:40, 14:00, 14:45 and 15:20.
NowVals == {540, 700, 840, 885, 920}

\* No quantity, then 1%, 4%, 12% and 25% of ADV.
QtyVals == {0, 1000, 4000, 12000, 25000}

VolVals == {180, 350}

RiskVals == {NoValue, 60}

UrgencyOverrideVals == {NoValue, 10, 60, 90}

\* The end-to-end example of the walkthrough: compliance client, risk
\* aversion 60, no notes, 90 minutes to close, volatility 1.8%, 4% of ADV.
WalkthroughExample ==
    [ now |-> 840, tag |-> "eod_compliance", qty |-> 4000, adv |-> 100000, vol |-> 180,
      notes |-> {}, ra |-> 60, urgency |-> NoValue, hist |-> <<>>,
      direction |-> "BUY", ltp |-> 245000, tick |-> 5, ats |-> 500, cross |-> <<>> ]

EngineInputs ==
    [ now : NowVals, tag : ClientTags, qty : QtyVals, adv : {100000}, vol : VolVals,
      notes : NotesVals, ra : RiskVals, urgency : UrgencyOverrideVals, hist : HistVals,
      direction : {"BUY"}, ltp : {245000}, tick : {5}, ats : {500}, cross : {<<>>} ]

\* ------------------------------------------------------------------------
\* The engine applied to one set of inputs
\* ------------------------------------------------------------------------
InitEngine ==
    /\ inp \in EngineInputs
    /\ out = NoOutput
    /\ ruleConfig = DefaultRuleConfig
    /\ log = <<>>
    /\ TicketUnmounted
    /\ SettingsUnmounted
    /\ pc = "ready"

RunPrefill ==
    /\ pc = "ready"
    /\ out' = compute_prefill(inp, ruleConfig)
    /\ pc' = "done"
    /\ UNCHANGED <<inp, ruleConfig, log>>
    /\ UNCHANGED <<ticketVars, settingsVars>>

NextEngine == RunPrefill

SpecEngine == InitEngine /\ [][NextEngine]_vars

\* ------------------------------------------------------------------------
\* Properties of the engine (SpecEngine)
\* ------------------------------------------------------------------------
ParsedNotes == parse_order_notes(inp.notes)

\* C3: if the parsed order notes name an algorithm, the resolved algo_type is
\* that algorithm with confidence 0.95, whatever the client tag, the urgency,
\* the order size and the history.
NotesAlgoHintWins ==
    (pc = "done" /\ ParsedNotes.algo_hint # "") =>
        /\ out.suggestions.algo_type = ParsedNotes.algo_hint
        /\ out.confidence.algo_type = 95

\* A notes hint for VWAP on a small, very urgent order of a stealth client
\* whose history prefers direct execution.
NotesAlgoHintWinsWitness ==
    /\ pc = "done"
    /\ ParsedNotes.algo_hint = "VWAP"
    /\ inp.tag = "stealth"
    /\ inp.urgency = 90
    /\ inp.qty = 1000
    /\ Len(inp.hist) >= 3
    /\ inp.hist[1].algo = "NONE"
    /\ out.suggestions.algo_type = "VWAP"

\* C4: the keys of why_not are algos other than the finally chosen one.
WhyNotExcludesChosen ==
    pc = "done" =>
        DOMAIN out.why_not \subseteq (Algos \ {out.suggestions.algo_type})

\* The final choice came from the historical override and why_not was built.
WhyNotExcludesChosenWitness ==
    /\ pc = "done"
    /\ out.algo_rule = "history"
    /\ out.suggestions.algo_type = "VWAP"
    /\ DOMAIN out.why_not = {"NONE", "POV", "ICEBERG"}

WalkthroughFields ==
    (pc = "done" /\ inp = WalkthroughExample) =>
        /\ out.suggestions.algo_type = "VWAP"
        /\ out.algo_rule = "tag"
        /\ out.suggestions.order_type = "LIMIT"
        /\ out.suggestions.tif = "GFD"
        /\ out.suggestions.get_done = TRUE
        /\ out.suggestions.end_time = MarketClose

WalkthroughFieldsWitness ==
    /\ pc = "done"
    /\ inp = WalkthroughExample
    /\ out.suggestions.start_time = 840

\* C10 as stated: notes with a completion mandate and a deadline give
\* get_done = true and end_time = the parsed deadline.
NotesDeadlineEndTime ==
    (pc = "done" /\ ParsedNotes.get_done /\ ParsedNotes.deadline # NoValue) =>
        /\ out.suggestions.get_done = TRUE
        /\ out.suggestions.end_time = ParsedNotes.deadline

\* C10 amended: notes with a completion mandate and a deadline give
\* get_done = true, and whenever a time window is suggested (algo_type is
\* not NONE) its end_time is the parsed deadline, not the market close.
NotesDeadlineEndTimeOfWindow ==
    (pc = "done" /\ ParsedNotes.get_done /\ ParsedNotes.deadline # NoValue) =>
        /\ out.suggestions.get_done = TRUE
        /\ out.suggestions.algo_type # "NONE" =>
              out.suggestions.end_time = ParsedNotes.deadline

\* "VWAP must complete by 2pm" for a compliance client before the open.
NotesDeadlineEndTimeWitness ==
    /\ pc = "done"
    /\ inp.notes = {"vwap", "must complete", "by 2pm"}
    /\ inp.tag = "eod_compliance"
    /\ inp.now = 540
    /\ out.suggestions.get_done = TRUE
    /\ out.suggestions.end_time = 840

HistPattern == get_historical_pattern(inp.hist)

\* The rule-based pick (priorities A to D) for the request, before blending.
RulePick == algo_rules(inp.tag, out.urgency_score, inp, ParsedNotes)

\* Five historical orders, four VWAP and one POV, and a current volatility
\* within 10% of their average recorded volatility.
HistoryExample ==
    /\ Len(inp.hist) = 5
    /\ CountOf(inp.hist, "algo", "VWAP") = 4
    /\ CountOf(inp.hist, "algo", "POV") = 1
    /\ 10 * (inp.vol * 5 - HistPattern.vol_sum) <= HistPattern.vol_sum
    /\ 10 * (HistPattern.vol_sum - inp.vol * 5) <= HistPattern.vol_sum

\* C11: in the history example the effective history weight is at least
\* 0.20 and a rule-based pick (the notes name no algorithm) resolves to VWAP,
\* also when the urgency x size matrix picked POV.
HistoryOverridesMatrix ==
    (pc = "done" /\ HistoryExample) =>
        /\ effective_hist_overrides(inp.vol, HistPattern)
        /\ RulePick.rule # "notes" => out.suggestions.algo_type = "VWAP"

\* The matrix picked POV and the response carries VWAP from history.
HistoryOverridesMatrixWitness ==
    /\ pc = "done"
    /\ HistoryExample
    /\ RulePick = [algo |-> "POV", confidence |-> 65, rule |-> "matrix"]
    /\ out.algo_rule = "history"
    /\ out.suggestions.algo_type = "VWAP"

UrgentSmall ==
    /\ pc = "done"
    /\ ParsedNotes.algo_hint = ""
    /\ out.urgency_score >= 85
    /\ SizeLT(inp, 5)

EndNotBeforeStart ==
    (pc = "done" /\ out.suggestions.start_time # NoValue
                 /\ out.suggestions.end_time # NoValue) =>
        out.suggestions.end_time >= out.suggestions.start_time

\* C24 as stated: an algo order is always suggested as a LIMIT order.
AlgoOrderIsLimit ==
    (pc = "done" /\ out.suggestions.algo_type # "NONE") =>
        out.suggestions.order_type = "LIMIT"

\* C24 amended: with fewer than 5 historical records an algo order is a
\* LIMIT order at confidence 0.80, whatever the urgency and the time to
\* close; with 5 and more the order type is the one the client used most.
AlgoOrderIsLimitUnlessHistory ==
    (pc = "done" /\ out.suggestions.algo_type # "NONE") =>
        /\ HistPattern.count < 5 =>
              /\ out.suggestions.order_type = "LIMIT"
              /\ out.confidence.order_type = 80
        /\ HistPattern.count >= 5 =>
              out.suggestions.order_type = HistPattern.preferred_order_type

\* An algo order at urgency 90, where a direct order would go to market.
AlgoOrderIsLimitWitness ==
    /\ pc = "done"
    /\ out.urgency_score = 90
    /\ out.suggestions.algo_type = "VWAP"
    /\ Len(inp.hist) = 4
    /\ out.suggestions.order_type = "LIMIT"

\* ------------------------------------------------------------------------
\* The urgency scorer applied to one combination of factors
\* ------------------------------------------------------------------------
\* Minutes to close 390, 270, 230, 90, 55, 25, 15, 5 and 0.
UrgencyNowVals == {540, 660, 700, 840, 875, 905, 915, 925, 930}

UrgencyQtyVals == {0, 1000, 4000, 7000, 12000, 25000}

\* 0 is the default of a missing volatility.
UrgencyVolVals == {0, 100, 180, 350}

UrgencyNotesVals ==
    { {},
      {"urgent"},
      {"no rush"},
      {"must complete"},
      {"by 2pm"},
      {"urgent", "must complete", "by close"},
      {"no rush", "by 10am"} }

UrgencyRiskVals == {NoValue} \cup {r \in 0..100 : r % 5 = 0}

UrgencyInputs ==
    [ now : UrgencyNowVals, tag : ClientTags, qty : UrgencyQtyVals, adv : {100000},
      vol : UrgencyVolVals, notes : UrgencyNotesVals, ra : UrgencyRiskVals,
      urgency : {NoValue}, hist : {<<>>}, direction : {"BUY"}, ltp : {245000}, tick : {5},
      ats : {500}, cross : {<<>>} ]

InitUrgency ==
    /\ inp \in UrgencyInputs
    /\ out = NoOutput
    /\ ruleConfig = DefaultRuleConfig
    /\ log = <<>>
    /\ TicketUnmounted
    /\ SettingsUnmounted
    /\ pc = "ready"

ScoreUrgency ==
    /\ pc = "ready"
    /\ LET ni == parse_order_notes(inp.notes)
           ttc == time_to_close(inp.now)
           ra == IF inp.ra = NoValue THEN 50 ELSE inp.ra
       IN  out' = [ computed_urgency |->
                      compute_urgency_score(ttc, inp.tag, inp, inp.vol, ni, ra, inp.now),
                    urgency_breakdown |->
                      urgency_breakdown(ttc, inp.tag, inp, inp.vol, ni, ra, inp.now) ]
    /\ pc' = "done"
    /\ UNCHANGED <<inp, ruleConfig, log>>
    /\ UNCHANGED <<ticketVars, settingsVars>>

NextUrgency == ScoreUrgency

SpecUrgency == InitUrgency /\ [][NextUrgency]_vars

\* Sum of the baseline and the adjustments of the breakdown, in hundredths.
RawScore == UrgencyBaseline * 100 + SumDeltas(out.urgency_breakdown)

\* C1: the urgency score is an integer between 0 and 100 for every
\* combination of factors.
UrgencyInRange == pc = "done" => out.computed_urgency \in 0..100

\* The adjustments add up to more than 100 and the score is clamped.
UrgencyInRangeWitness ==
    /\ pc = "done"
    /\ RawScore > 100 * 100
    /\ out.computed_urgency = 100

TieredFactors == {"time_to_close", "order_size", "volatility", "notes_deadline"}

EntriesOf(f) == {k \in DOMAIN out.urgency_breakdown : out.urgency_breakdown[k].factor = f}

\* The delta (in points) of the only entry of factor f.
OnlyDelta(f, d) ==
    \E k \in DOMAIN out.urgency_breakdown :
        /\ EntriesOf(f) = {k}
        /\ out.urgency_breakdown[k].delta = d * 100

\* C17: each tiered factor has at most one entry in the breakdown, and it is
\* the entry of the tightest matching bracket.
OneBracketPerFactor ==
    pc = "done" =>
        LET ttc == time_to_close(inp.now)
            left == parse_order_notes(inp.notes).deadline - inp.now
        IN  /\ \A f \in TieredFactors : Cardinality(EntriesOf(f)) <= 1
            /\ ttc < 10 => OnlyDelta("time_to_close", 35)
            /\ (ttc >= 10 /\ ttc < 20) => OnlyDelta("time_to_close", 25)
            /\ (ttc >= 20 /\ ttc < 30) => OnlyDelta("time_to_close", 18)
            /\ (ttc >= 30 /\ ttc < 60) => OnlyDelta("time_to_close", 10)
            /\ SizeGT(inp, 20) => OnlyDelta("order_size", -12)
            /\ (SizeGT(inp, 10) /\ ~SizeGT(inp, 20)) => OnlyDelta("order_size", -5)
            /\ SizeLT(inp, 2) => OnlyDelta("order_size", 10)
            /\ (SizeLT(inp, 5) /\ ~SizeLT(inp, 2)) => OnlyDelta("order_size", 5)
            /\ (parse_order_notes(inp.notes).deadline # NoValue /\ left < 30)
                  => OnlyDelta("notes_deadline", 20)
            /\ (parse_order_notes(inp.notes).deadline # NoValue /\ left >= 30 /\ left < 60)
                  => OnlyDelta("notes_deadline", 10)

\* Five minutes to close on an order above 20% of ADV with a deadline at the
\* close: +35, -12 and +20, one entry each.
OneBracketPerFactorWitness ==
    /\ pc = "done"
    /\ time_to_close(inp.now) = 5
    /\ SizeGT(inp, 20)
    /\ OnlyDelta("time_to_close", 35)
    /\ OnlyDelta("order_size", -12)
    /\ OnlyDelta("notes_deadline", 20)

\* ------------------------------------------------------------------------
\* The limit price resolver applied to one quote
\* ------------------------------------------------------------------------
\* Prices from 10.00 to 2450.37, on and off the tick grid.
LtpVals == {1000, 1001, 1004, 2502, 3125, 10000, 10003, 245000, 245037}

TickVals == {1, 5, 10}

LimitInputs ==
    [ direction : {"BUY", "SELL"}, ltp : LtpVals, tick : TickVals,
      urgency : {10, 60, 90}, now : {700, 915}, vol : {180, 350} ]

InitLimit ==
    /\ inp \in LimitInputs
    /\ out = NoOutput
    /\ ruleConfig = DefaultRuleConfig
    /\ log = <<>>
    /\ TicketUnmounted
    /\ SettingsUnmounted
    /\ pc = "ready"

QuoteLimit ==
    /\ pc = "ready"
    /\ out' = [ limit_price |->
                  resolve_limit_price("LIMIT", inp.direction, inp.ltp, inp.tick, inp.urgency,
                                      time_to_close(inp.now), inp.vol, ruleConfig) ]
    /\ pc' = "done"
    /\ UNCHANGED <<inp, ruleConfig, log>>
    /\ UNCHANGED <<ticketVars, settingsVars>>

NextLimit == QuoteLimit

SpecLimit == InitLimit /\ [][NextLimit]_vars

\* C5: a suggested limit price is on the far side of the last traded price
\* (at or above it for a BUY, at or below it for a SELL) and a multiple of
\* the tick size.
LimitPriceSideAndTick ==
    (pc = "done" /\ out.limit_price # NoValue) =>
        /\ inp.direction = "BUY" => out.limit_price >= inp.ltp
        /\ inp.direction = "SELL" => out.limit_price <= inp.ltp
        /\ out.limit_price % inp.tick = 0

\* ------------------------------------------------------------------------
\* The engine on requests that differ in the cross-client order set
\* ------------------------------------------------------------------------
CrossOrder(a, q) == [algo |-> a, qty |-> q]

\* Most filled orders of other clients drawn for a request.
MaxCross == 6

\* Filled orders of all clients for the symbol, mostly ICEBERG around 5,000
\* shares.
CrossMostlyIceberg ==
    << CrossOrder("ICEBERG", 4000), CrossOrder("ICEBERG", 5000), CrossOrder("VWAP", 6000),
       CrossOrder("ICEBERG", 3000), CrossOrder("ICEBERG", 8000), CrossOrder("POV", 4000),
       CrossOrder("ICEBERG", 100000), CrossOrder("ICEBERG", 4500) >>

\* Filled orders without a majority algo.
CrossSplit ==
    << CrossOrder("VWAP", 4000), CrossOrder("POV", 4000), CrossOrder("ICEBERG", 4000),
       CrossOrder("NONE", 4000), CrossOrder("VWAP", 4000), CrossOrder("POV", 4000),
       CrossOrder("ICEBERG", 4000), CrossOrder("NONE", 4000) >>

CrossVals ==
    { SubSeq(c, 1, n) : c \in {CrossMostlyIceberg, CrossSplit}, n \in 0..Min2(MaxCross, 8) }

CrossInputs ==
    [ now : {700, 885}, tag : ClientTags, qty : {0, 4000, 12000}, adv : {100000}, vol : {180},
      notes : {{}, {"vwap", "must complete", "by 2pm"}}, ra : {NoValue},
      urgency : {NoValue, 10, 90}, hist : {<<>>, SubSeq(HistMostlyVwap, 1, 5)},
      direction : {"BUY"}, ltp : {245000}, tick : {5}, ats : {500}, cross : CrossVals ]

InitCross ==
    /\ inp \in CrossInputs
    /\ out = NoOutput
    /\ ruleConfig = DefaultRuleConfig
    /\ log = <<>>
    /\ TicketUnmounted
    /\ SettingsUnmounted
    /\ pc = "ready"

SpecCross == InitCross /\ [][NextEngine]_vars

\* A response without its cross-client annotation.
Decision(o) == [o EXCEPT !.cross_client_signal = ""]

\* C14: the response to a request equals, apart from the cross-client
\* annotation of the algo explanation, the response to the same request with
\* an empty cross-client set; the annotation needs at least 5 filled orders
\* of similar size and an algo with a share of at least 60%.
CrossClientAnnotatesOnly ==
    pc = "done" =>
        LET similar == {k \in DOMAIN inp.cross :
                           /\ inp.cross[k].qty * 10 >= inp.qty * 4
                           /\ inp.cross[k].qty * 10 <= inp.qty * 25}
        IN  /\ Decision(out) = Decision(compute_prefill([inp EXCEPT !.cross = <<>>], ruleConfig))
            /\ out.cross_client_signal # "" =>
                  /\ Cardinality(similar) >= 5
                  /\ Cardinality({k \in similar : inp.cross[k].algo = out.cross_client_signal}) * 100
                        >= 60 * Cardinality(similar)

\* Four of five similar orders of other clients used ICEBERG, and the
\* matrix pick POV stands.
CrossClientAnnotatesOnlyWitness ==
    /\ pc = "done"
    /\ out.cross_client_signal = "ICEBERG"
    /\ out.algo_rule = "matrix"
    /\ out.suggestions.algo_type = "POV"

\* ------------------------------------------------------------------------
\* The engine on missing and defaulted optional data
\* ------------------------------------------------------------------------
\* Orders recorded while the market snapshot had no volatility.
HistZeroVol ==
    << HistOrder("VWAP", "LIMIT", "GFD", FALSE, 0, 4000),
       HistOrder("VWAP", "LIMIT", "GFD", FALSE, 0, 5000),
       HistOrder("POV", "LIMIT", "GFD", TRUE, 0, 4000),
       HistOrder("VWAP", "LIMIT", "GFD", FALSE, 0, 3000),
       HistOrder("VWAP", "LIMIT", "GFD", FALSE, 0, 4000),
       HistOrder("VWAP", "LIMIT", "GFD", FALSE, 0, 4000) >>

DefaultsInputs ==
    [ now : {700, 920}, tag : ClientTags, qty : {0, 4000, 25000}, adv : {100000},
      vol : {0, 180}, notes : {{}, {"iceberg", "no rush"}}, ra : {NoValue},
      urgency : {NoValue, 90},
      hist : { SubSeq(h, 1, n) : h \in {HistZeroVol, HistMostlyVwap}, n \in 0..Min2(MaxHist, 6) },
      direction : {"BUY"}, ltp : {0, 245000}, tick : {5}, ats : {0, 500}, cross : {<<>>} ]

InitDefaults ==
    /\ inp \in DefaultsInputs
    /\ out = NoOutput
    /\ ruleConfig = DefaultRuleConfig
    /\ log = <<>>
    /\ TicketUnmounted
    /\ SettingsUnmounted
    /\ pc = "ready"

SpecDefaults == InitDefaults /\ [][NextEngine]_vars

IcebergQtyVals == {0, 80, 500, 1000, 1250, 4000, 25000, 60000}

IcebergAtsVals == {0, 50, 500, 5000}

IcebergInputs ==
    [ now : {700, 885}, tag : {"stealth", "none"}, qty : IcebergQtyVals, adv : {100000},
      vol : {180}, notes : {{}, {"iceberg", "no rush"}}, ra : {NoValue},
      urgency : {NoValue, 10, 90}, hist : {<<>>},
      direction : {"BUY"}, ltp : {245000}, tick : {5}, ats : IcebergAtsVals, cross : {<<>>} ]

InitIceberg ==
    /\ inp \in IcebergInputs
    /\ out = NoOutput
    /\ ruleConfig = DefaultRuleConfig
    /\ log = <<>>
    /\ TicketUnmounted
    /\ SettingsUnmounted
    /\ pc = "ready"

SpecIceberg == InitIceberg /\ [][NextEngine]_vars

\* C19: a suggested display quantity is at most 8% of the order quantity.
IcebergDisplayAtMost8Pct ==
    (pc = "done" /\ out.suggestions.display_quantity # NoValue) =>
        out.suggestions.display_quantity * 100 <= 8 * inp.qty

\* ------------------------------------------------------------------------
\* The quantity hint while the history of a client+symbol pair grows
\* ------------------------------------------------------------------------
\* Orders recorded for the pair before the history stops growing.
MaxOrders == 9

\* The engine looks at the last 10 orders of the pair.
HistFetchLimit == 10

NewOrders ==
    { HistOrder("VWAP", "LIMIT", "GFD", FALSE, 190, 4000),
      HistOrder("NONE", "MARKET", "IOC", TRUE, 200, 12000) }

\* The same ticket with and without a quantity entered by the trader.
QuantityInputs ==
    { [WalkthroughExample EXCEPT !.qty = q, !.tag = "none", !.ra = NoValue] : q \in {0, 4000} }

InitQuantity ==
    /\ inp \in QuantityInputs
    /\ out = NoOutput
    /\ ruleConfig = DefaultRuleConfig
    /\ log = <<>>
    /\ TicketUnmounted
    /\ SettingsUnmounted
    /\ pc = "ready"

\* An order of the pair is recorded; the next request sees it first among
\* the last HistFetchLimit orders.
record_order(o) ==
    /\ pc = "done"
    /\ Len(inp.hist) < MaxOrders
    /\ inp' = [inp EXCEPT !.hist =
                  SubSeq(<<o>> \o @, 1, Min2(Len(@) + 1, HistFetchLimit))]
    /\ pc' = "ready"
    /\ UNCHANGED <<out, ruleConfig, log>>
    /\ UNCHANGED <<ticketVars, settingsVars>>

NextQuantity ==
    \/ RunPrefill
    \/ \E o \in NewOrders : record_order(o)

SpecQuantity == InitQuantity /\ [][NextQuantity]_vars

HasQuantityHint(o) == "suggestions" \in DOMAIN o /\ o.suggestions.quantity # NoValue

\* A response is returned: the hint is there only if the trader supplied no
\* quantity, its confidence is at most 0.70, and it is not below the
\* confidence of the previous response, computed on a shorter history.
QuantityHintStep ==
    pc' = "done" =>
        /\ HasQuantityHint(out') => inp'.qty = 0
        /\ HasQuantityHint(out') => out'.confidence.quantity <= 70
        /\ (HasQuantityHint(out) /\ HasQuantityHint(out')) =>
              out'.confidence.quantity >= out.confidence.quantity
        /\ \A n \in 0..Len(inp'.hist) :
              /\ quantity_hint_confidence(n) <= quantity_hint_confidence(n + 1)
              /\ quantity_hint_confidence(n) <= 70

\* C12: the quantity-hint confidence never decreases as the history grows,
\* never exceeds 0.70, and a hint is produced only when the trader supplied
\* no quantity.
QuantityHintMonotoneCapped == [][QuantityHintStep]_vars

\* Eight recorded orders and no quantity: the hint is at the cap.
QuantityHintWitness ==
    /\ pc = "done"
    /\ inp.qty = 0
    /\ Len(inp.hist) = 8
    /\ HasQuantityHint(out)
    /\ out.confidence.quantity = 70

\* ------------------------------------------------------------------------
\* The engine on histories of every length and recorded volatility
\* ------------------------------------------------------------------------
\* Longest history of the blend requests.
MaxBlend == 6

\* Current and recorded volatilities: 1.2%, 1.8% and 2.7% are pairwise at a
\* ratio of 2/3 or below.
BlendVols == {120, 180, 270}

\* Histories of VWAP orders, one recorded volatility per order.
BlendHistsOfLen(n) ==
    { [k \in 1..n |-> HistOrder("VWAP", "LIMIT", "GFD", FALSE, vs[k], 4000)] :
        vs \in [1..n -> BlendVols] }

BlendHists == UNION { BlendHistsOfLen(n) : n \in 0..MaxBlend }

BlendInputs ==
    [ now : {700}, tag : {"none"}, qty : {4000, 12000}, adv : {100000}, vol : BlendVols,
      notes : {{}}, ra : {NoValue}, urgency : {NoValue}, hist : BlendHists,
      direction : {"BUY"}, ltp : {245000}, tick : {5}, ats : {500}, cross : {<<>>} ]

InitBlend ==
    /\ inp \in BlendInputs
    /\ out = NoOutput
    /\ ruleConfig = DefaultRuleConfig
    /\ log = <<>>
    /\ TicketUnmounted
    /\ SettingsUnmounted
    /\ pc = "ready"

SpecBlend == InitBlend /\ [][NextEngine]_vars

\* The matrix made the rule-based pick and history prefers another algo.
MatrixDisagreesWithHistory ==
    /\ pc = "done"
    /\ RulePick.rule = "matrix"
    /\ HistPattern.count >= 1
    /\ HistPattern.preferred_algo # RulePick.algo

\* Similarity of the current volatility and the average recorded one is at
\* least num/den.
SimilarityAtLeast(num, den) ==
    LET cur == inp.vol * HistPattern.count
        avg == HistPattern.vol_sum
    IN  den * Min2(cur, avg) >= num * Max2(cur, avg)

UrgencySteps == {0, 20, 25, 49, 50, 69, 70, 74, 75, 84, 85, 100}

\* Orders of 4%, 12% and 25% of ADV at 09:20, 11:40, 14:00 and 14:30 (60
\* minutes to close), no notes, no history, no compliance tag.
WindowInputs ==
    [ now : {560, 700, 840, 870}, tag : ClientTags \ {"eod_compliance"},
      qty : {4000, 12000, 25000}, adv : {100000}, vol : {180}, notes : {{}},
      ra : {NoValue}, urgency : {0}, hist : {<<>>}, direction : {"BUY"}, ltp : {245000},
      tick : {5}, ats : {500}, cross : {<<>>} ]

InitWindow ==
    /\ inp \in WindowInputs
    /\ out = NoOutput
    /\ ruleConfig = DefaultRuleConfig
    /\ log = <<>>
    /\ TicketUnmounted
    /\ SettingsUnmounted
    /\ pc = "ready"

\* The same request again with a higher urgency.
RaiseUrgency(u) ==
    /\ pc = "done"
    /\ u > inp.urgency
    /\ inp' = [inp EXCEPT !.urgency = u]
    /\ out' = compute_prefill(inp', ruleConfig)
    /\ UNCHANGED <<ruleConfig, log, pc>>
    /\ UNCHANGED <<ticketVars, settingsVars>>

NextWindow ==
    \/ RunPrefill
    \/ \E u \in UrgencySteps : RaiseUrgency(u)

SpecWindow == InitWindow /\ [][NextWindow]_vars

\* Both the response before and the one after the step carry an end time.
WindowStep ==
    (/\ pc = "done"
     /\ pc' = "done"
     /\ inp'.urgency > inp.urgency
     /\ out.suggestions.end_time # NoValue
     /\ out'.suggestions.end_time # NoValue) =>
        out'.suggestions.end_time <= out.suggestions.end_time

\* C25: raising the urgency of an algo order never moves the suggested
\* end time later.
EndTimeNonIncreasingInUrgency == [][WindowStep]_vars

\* ------------------------------------------------------------------------
\* The engine re-run with its own notes template as the order notes
\* ------------------------------------------------------------------------
\* Requests without notes: every client tag, 4% and 25% of ADV, 11:40 and
\* 14:45, calm and volatile, computed urgency and a slider value of 80.
NotesInputs ==
    [ now : {700, 885}, tag : ClientTags, qty : {4000, 25000}, adv : {100000},
      vol : {180, 350}, notes : {{}}, ra : {NoValue}, urgency : {NoValue, 80},
      hist : {<<>>}, direction : {"BUY"}, ltp : {245000}, tick : {5}, ats : {500},
      cross : {<<>>} ]

InitNotes ==
    /\ inp \in NotesInputs
    /\ out = NoOutput
    /\ ruleConfig = DefaultRuleConfig
    /\ log = <<>>
    /\ TicketUnmounted
    /\ SettingsUnmounted
    /\ pc = "ready"

\* The generated notes went into the empty notes field and the request is
\* sent again with them.
FeedNotesBack ==
    /\ pc = "done"
    /\ inp.notes = {}
    /\ inp' = [inp EXCEPT !.notes = template_phrases(out.suggestions.order_notes)]
    /\ out' = compute_prefill(inp', ruleConfig)
    /\ pc' = "refilled"
    /\ UNCHANGED <<ruleConfig, log>>
    /\ UNCHANGED <<ticketVars, settingsVars>>

NextNotes ==
    \/ RunPrefill
    \/ FeedNotesBack

SpecNotes == InitNotes /\ [][NextNotes]_vars

NotesFeedbackStep ==
    pc' = "refilled" =>
        /\ out'.computed_urgency = out.computed_urgency
        /\ out'.suggestions.algo_type = out.suggestions.algo_type
        /\ out'.suggestions.get_done = out.suggestions.get_done
        /\ out'.scenario_tag = out.scenario_tag

\* C26: re-running the request with the generated notes template as the
\* order notes yields the same computed urgency, algo, get-done and
\* scenario.
NotesTemplateIsFixpoint == [][NotesFeedbackStep]_vars

\* ------------------------------------------------------------------------
\* The prefill service: requests served one after another under the rule
\* configuration in force, which the settings page saves and resets.
\* ------------------------------------------------------------------------
\* Most requests recorded in the log.
MaxLog == 3

\* A direct-access client scoring 73 (get-done depends on its urgency
\* threshold) and a conservative client scoring 30 (the limit price uses the
\* default offset).
ServiceInputs ==
    { WalkthroughExample,
      [WalkthroughExample EXCEPT !.tag = "hft", !.ra = NoValue],
      [WalkthroughExample EXCEPT !.tag = "conservative", !.ra = NoValue,
                                 !.now = 700, !.qty = 12000] }

ConfigValues(k) == IF k = "get_done_urgency" THEN {60, 75} ELSE {8, 10}

Init ==
    /\ inp = WalkthroughExample
    /\ out = NoOutput
    /\ ruleConfig = DefaultRuleConfig
    /\ log = <<>>
    /\ TicketUnmounted
    /\ SettingsUnmounted
    /\ pc = "idle"

\* POST /prefill that carries the urgency computed for the previous request
\* over to a request without an urgency of its own.
prefill_sticky_urgency(i) ==
    /\ Len(log) < MaxLog
    /\ LET j == IF out # NoOutput /\ i.urgency = NoValue
                THEN [i EXCEPT !.urgency = out.computed_urgency] ELSE i
           resp == compute_prefill(j, ruleConfig)
       IN  /\ out' = resp
           /\ log' = Append(log, [inp |-> i, cfg |-> ruleConfig, out |-> resp])
    /\ inp' = i
    /\ UNCHANGED <<ruleConfig, pc>>
    /\ UNCHANGED <<ticketVars, settingsVars>>

\* POST /prefill: the engine runs on the request under the current rule
\* configuration; the log keeps what was asked and what was answered.
prefill(i) ==
    /\ Len(log) < MaxLog
    /\ LET resp == compute_prefill(i, ruleConfig)
       IN  /\ out' = resp
           /\ log' = Append(log, [inp |-> i, cfg |-> ruleConfig, out |-> resp])
    /\ inp' = i
    /\ UNCHANGED <<ruleConfig, pc>>
    /\ UNCHANGED <<ticketVars, settingsVars>>

\* Save of the settings page: every key of the update takes its new value.
updateMany(updates) ==
    /\ ruleConfig' = [k \in ConfigKeys |->
                        IF k \in DOMAIN updates THEN updates[k] ELSE ruleConfig[k]]
    /\ ruleConfig' # ruleConfig
    /\ UNCHANGED <<inp, out, log, pc>>
    /\ UNCHANGED <<ticketVars, settingsVars>>

\* Reset of the settings page: every key returns to its factory default.
resetToDefaults ==
    /\ ruleConfig # DefaultRuleConfig
    /\ ruleConfig' = DefaultRuleConfig
    /\ UNCHANGED <<inp, out, log, pc>>
    /\ UNCHANGED <<ticketVars, settingsVars>>

Next ==
    \/ \E i \in ServiceInputs : prefill(i)
    \/ \E K \in (SUBSET ConfigKeys) \ {{}} :
          \E updates \in [K -> UNION {ConfigValues(k) : k \in K}] :
             /\ \A k \in K : updates[k] \in ConfigValues(k)
             /\ updateMany(updates)
    \/ resetToDefaults

Spec == Init /\ [][Next]_vars

MaxRequests == 2

\* Edits of one burst are counted up to this many.
MaxBurst == 2

Clients == {"CLIENT_XYZ"}

\* The instrument the ticket is opened for.
prefilledSymbol == "RELIANCE"

\* XYZ Capital Partners is compliance-driven with a risk aversion of 60.
ClientTag(c) == "eod_compliance"

ClientRisk(c) == 60

\* What the trader types into the notes field: the start of the sentence
\* and the whole of it.
TypedNotes == {"VWAP", "VWAP must complete by 2pm"}

\* The phrases the notes parser recognises in one piece of notes text.
text_phrases(t) ==
    CASE t = "VWAP" -> {"vwap"}
      [] t = "VWAP must complete by 2pm" -> {"vwap", "must complete", "by 2pm"}
      [] OTHER -> component_phrases(t)

\* The client has 5 past orders in the instrument, 4 of them VWAP.
ClientHistory(c) == SubSeq(HistMostlyVwap, 1, 5)

\* What the backend looks up for a request at 14:00.
ServerInput(r) ==
    [WalkthroughExample EXCEPT !.tag = ClientTag(r.client_id), !.ra = ClientRisk(r.client_id),
                               !.hist = ClientHistory(r.client_id),
                               !.urgency = r.urgency,
                               !.notes = UNION {text_phrases(t) : t \in r.order_notes},
                               !.qty = IF r.quantity = NoValue THEN 0 ELSE r.quantity]

\* The urgencies, notes and quantities a request of the ticket can carry.
SliderValues == {30, 90}

RequestUrgencies == {NoValue} \cup SliderValues

TemplateComponents ==
    {"EOD compliance required", "Minimize market impact - stealth execution",
     "Benchmark: arrival price", "Large block: % of ADV", "Get Done: must complete",
     "Deadline: HH:MM"}

RequestNotes == SUBSET TemplateComponents \cup {{t} : t \in TypedNotes}

RequestQuantities == {NoValue, 4000}

\* The backend's answer to every request the ticket can send.
prefillApi ==
    [c \in Clients, u \in RequestUrgencies, n \in RequestNotes, q \in RequestQuantities |->
        compute_prefill(ServerInput([client_id |-> c, urgency |-> u, order_notes |-> n,
                                     quantity |-> q]),
                        DefaultRuleConfig)]

\* The answer to request r.
ResponseTo(r) == prefillApi[r.client_id, r.urgency, r.order_notes, r.quantity]

\* The fields a response fills unless the trader has overridden them.
OverridableFields ==
    {"algo_type", "order_type", "limit_price", "start_time", "end_time",
     "display_quantity", "tif", "get_done"}

\* JavaScript truthiness of a suggestion (get_done only has to be defined).
Suggested(sg, f) ==
    IF f \in {"algo_type", "order_type", "tif"} THEN sg[f] # ""
    ELSE IF f = "get_done" THEN TRUE
    ELSE IF f = "order_notes" THEN sg[f] # {}
    ELSE sg[f] # NoValue /\ sg[f] # 0

\* Quantity and notes are filled only into an empty field.
FilledFields(prev, sg, ov) ==
    {f \in OverridableFields : Suggested(sg, f) /\ f \notin ov}
      \cup (IF Suggested(sg, "quantity") /\ prev.quantity = NoValue THEN {"quantity"} ELSE {})
      \cup (IF Suggested(sg, "order_notes") /\ prev.order_notes = {}
            THEN {"order_notes"} ELSE {})

\* setForm of triggerPrefill: the suggestions go into the fields that are
\* not overridden, the urgency into the slider unless the trader moved it.
ApplySuggestions(prev, result, ov, um) ==
    [f \in DOMAIN prev |->
        IF f \in FilledFields(prev, result.suggestions, ov) THEN result.suggestions[f]
        ELSE IF f = "urgency" /\ um = NoValue THEN result.urgency_score
        ELSE prev[f]]

\* The request triggerPrefill sends; none without a client and a symbol.
\* burst is the number of edits the debounce timer that sends it has
\* coalesced, 0 for a request that no timer sends.
Request(id, clientId, symbol, urgencyVal, orderNotes, qty, burst) ==
    IF clientId = "" \/ symbol = "" THEN {}
    ELSE {[ id |-> id, client_id |-> clientId, symbol |-> symbol,
            urgency |-> urgencyVal, order_notes |-> orderNotes, quantity |-> qty,
            burst |-> burst ]}

\* The request of a set with the highest id.
Newest(reqs) == CHOOSE r \in reqs : \A q \in reqs : q.id <= r.id

\* triggerPrefill up to the await: the indicator goes on, the request is out.
triggerPrefill(reqs) ==
    /\ pending' = pending \cup reqs
    /\ requests' = requests + Cardinality(reqs)
    /\ prefilling' = (prefilling \/ reqs # {})
    /\ lastIssued' = IF reqs = {} THEN lastIssued ELSE Newest(reqs)

\* Debounce timers that are armed.
ArmedTimers ==
    Cardinality({t \in {urgencyDebounce, qtyDebounce, notesDebounce} : t # NoTimer})

\* The trader acts while the requests sent and the timers armed stay within
\* the bound; what follows automatically is never held back.
WithinBudget == requests + ArmedTimers <= MaxRequests

\* The submit button is enabled.
SubmitEnabled(f) == f.client_id # "" /\ f.symbol # "" /\ f.quantity # NoValue

InitTicket ==
    /\ inp = WalkthroughExample
    /\ out = NoOutput
    /\ ruleConfig = DefaultRuleConfig
    /\ log = <<>>
    /\ pc = "idle"
    /\ TicketUnmounted
    /\ SettingsUnmounted

\* The quantity effect: a changed quantity cancels the pending timer and,
\* with Smart Prefill on, a client, a symbol and a positive quantity, starts
\* a new one.
QtyTimerAfter(next, enabled) ==
    IF enabled /\ next.client_id # "" /\ next.symbol # ""
         /\ next.quantity # NoValue /\ next.quantity # 0
    THEN [client_id |-> next.client_id, symbol |-> next.symbol,
          order_notes |-> next.order_notes, quantity |-> next.quantity]
    ELSE NoTimer

\* The edits a timer has coalesced once one more edit re-arms it.
EditsAfter(timer, typed) ==
    Min2(MaxBurst, (IF timer = NoTimer THEN 0 ELSE timer.edits) + (IF typed THEN 1 ELSE 0))

\* The notes effect: changed notes cancel the pending timer and, with Smart
\* Prefill on, a client and a symbol, start a new one.
\* NotesTimerAfter that lets a timer already armed run on with the notes it
\* was armed with.
NotesTimerAfter_first_edit(next, enabled, typed) ==
    IF enabled /\ next.client_id # "" /\ next.symbol # ""
    THEN IF notesDebounce # NoTimer
         THEN [notesDebounce EXCEPT !.edits = EditsAfter(notesDebounce, typed)]
         ELSE [client_id |-> next.client_id, symbol |-> next.symbol,
               order_notes |-> next.order_notes, quantity |-> next.quantity,
               edits |-> EditsAfter(notesDebounce, typed)]
    ELSE NoTimer

NotesTimerAfter(next, enabled, typed) ==
    IF enabled /\ next.client_id # "" /\ next.symbol # ""
    THEN [client_id |-> next.client_id, symbol |-> next.symbol,
          order_notes |-> next.order_notes, quantity |-> next.quantity,
          edits |-> EditsAfter(notesDebounce, typed)]
    ELSE NoTimer

\* The effects that run after the form went from prev to next; typed
\* tells a change made by the trader from one made by the ticket.
FormEffects(prev, next, enabled, typed) ==
    /\ qtyDebounce' =
          IF next.quantity # prev.quantity THEN QtyTimerAfter(next, enabled) ELSE qtyDebounce
    /\ notesDebounce' =
          IF next.order_notes # prev.order_notes THEN NotesTimerAfter(next, enabled, typed)
          ELSE notesDebounce

\* The dialog opens: the form returns to its defaults with the symbol it is
\* opened for, and the prefill state and the overrides are dropped.  A
\* quantity or notes that are cleared cancel their pending timer.
openDialog ==
    /\ ~open
    /\ open' = TRUE
    /\ form' = [DEFAULT_FORM EXCEPT !.symbol = prefilledSymbol]
    /\ prefillResult' = NoOutput
    /\ prefilledFields' = {}
    /\ overriddenFields' = {}
    /\ urgencyManual' = NoValue
    /\ manual' = NoManual
    /\ FormEffects(form, form', prefillEnabled, FALSE)
    /\ UNCHANGED <<prefilling, prefillEnabled, urgencyDebounce, pending, requests, settled,
                   lastIssued>>
    /\ UNCHANGED <<inp, out, ruleConfig, log, pc, settingsVars>>

closeDialog ==
    /\ open
    /\ open' = FALSE
    /\ UNCHANGED <<form, prefillResult, prefilling, prefilledFields, prefillEnabled,
                   overriddenFields, urgencyManual, urgencyDebounce, qtyDebounce,
                   notesDebounce, pending, requests, settled, manual, lastIssued>>
    /\ UNCHANGED <<inp, out, ruleConfig, log, pc, settingsVars>>

\* The trader edits a field.  A field that was prefilled becomes an
\* override; a new client or symbol starts a new context and asks for
\* suggestions.
update(field, value) ==
    /\ open
    /\ value # form[field]
    /\ LET next == [form EXCEPT ![field] = value]
           newContext == /\ field \in {"client_id", "symbol"}
                         /\ prefillEnabled
                         /\ next.client_id # ""
                         /\ next.symbol # ""
       IN  /\ form' = next
           /\ prefilledFields' = prefilledFields \ {field}
           /\ overriddenFields' =
                 IF newContext THEN {}
                 ELSE IF field \in prefilledFields THEN overriddenFields \cup {field}
                 ELSE overriddenFields
           /\ urgencyManual' = IF newContext THEN NoValue ELSE urgencyManual
           /\ triggerPrefill(IF newContext
                             THEN Request(requests + 1, next.client_id, next.symbol,
                                          NoValue, next.order_notes, next.quantity, 0)
                             ELSE {})
           /\ FormEffects(form, next, prefillEnabled, TRUE)
           /\ manual' =
                 IF field \in {"client_id", "symbol"} THEN NoManual
                 ELSE IF field \in OverridableFields
                 THEN [f \in DOMAIN manual \cup {field} |->
                          IF f = field THEN value ELSE manual[f]]
                 ELSE manual
    /\ UNCHANGED <<open, prefillResult, prefillEnabled, urgencyDebounce, settled>>
    /\ UNCHANGED <<inp, out, ruleConfig, log, pc, settingsVars>>
    /\ WithinBudget'

\* The trader moves the urgency slider: the value is remembered as manual
\* and a re-prefill is scheduled with what the ticket shows now.
handleUrgencyChange(u) ==
    /\ open
    /\ u # form.urgency
    /\ form' = [form EXCEPT !.urgency = u]
    /\ urgencyManual' = u
    /\ urgencyDebounce' =
          [ enabled |-> prefillEnabled, client_id |-> form.client_id,
            symbol |-> form.symbol, urgency |-> u, order_notes |-> form.order_notes,
            quantity |-> form.quantity, edits |-> EditsAfter(urgencyDebounce, TRUE) ]
    /\ manual' = [f \in DOMAIN manual \cup {"urgency"} |->
                     IF f = "urgency" THEN u ELSE manual[f]]
    /\ UNCHANGED <<open, prefillResult, prefilling, prefilledFields, prefillEnabled,
                   overriddenFields, qtyDebounce, notesDebounce, pending, requests, settled,
                   lastIssued>>
    /\ UNCHANGED <<inp, out, ruleConfig, log, pc, settingsVars>>
    /\ WithinBudget'

\* The urgency timer fires with the values captured when it was set.
urgencyDebounceFires ==
    /\ urgencyDebounce # NoTimer
    /\ triggerPrefill(IF urgencyDebounce.enabled
                      THEN Request(requests + 1, urgencyDebounce.client_id,
                                   urgencyDebounce.symbol, urgencyDebounce.urgency,
                                   urgencyDebounce.order_notes, urgencyDebounce.quantity,
                                   urgencyDebounce.edits)
                      ELSE {})
    /\ urgencyDebounce' = NoTimer
    /\ UNCHANGED <<open, form, prefillResult, prefilledFields, prefillEnabled,
                   overriddenFields, urgencyManual, qtyDebounce, notesDebounce, settled,
                   manual>>
    /\ UNCHANGED <<inp, out, ruleConfig, log, pc, settingsVars>>

\* The quantity timer fires: captured client, symbol, notes and quantity,
\* and the manual urgency as it is now.
qtyDebounceFires ==
    /\ qtyDebounce # NoTimer
    /\ triggerPrefill(Request(requests + 1, qtyDebounce.client_id, qtyDebounce.symbol,
                              urgencyManual, qtyDebounce.order_notes, qtyDebounce.quantity,
                              0))
    /\ qtyDebounce' = NoTimer
    /\ UNCHANGED <<open, form, prefillResult, prefilledFields, prefillEnabled,
                   overriddenFields, urgencyManual, urgencyDebounce, notesDebounce, settled,
                   manual>>
    /\ UNCHANGED <<inp, out, ruleConfig, log, pc, settingsVars>>

\* The notes timer fires: captured client, symbol, notes and quantity, and
\* the manual urgency as it is now.
notesDebounceFires ==
    /\ notesDebounce # NoTimer
    /\ triggerPrefill(Request(requests + 1, notesDebounce.client_id, notesDebounce.symbol,
                              urgencyManual, notesDebounce.order_notes,
                              notesDebounce.quantity, notesDebounce.edits))
    /\ notesDebounce' = NoTimer
    /\ UNCHANGED <<open, form, prefillResult, prefilledFields, prefillEnabled,
                   overriddenFields, urgencyManual, urgencyDebounce, qtyDebounce, settled,
                   manual>>
    /\ UNCHANGED <<inp, out, ruleConfig, log, pc, settingsVars>>

\* A request in flight is answered: the suggestions are applied to the form.
\* prefillResolved without the finally block.
prefillResolved_no_finally(r) ==
    /\ r \in pending
    /\ LET result == ResponseTo(r)
           next == ApplySuggestions(form, result, overriddenFields, urgencyManual)
       IN  /\ prefillResult' = result
           /\ form' = next
           /\ prefilledFields' = FilledFields(form, result.suggestions, overriddenFields)
           /\ FormEffects(form, next, prefillEnabled, FALSE)
    /\ pending' = pending \ {r}
    /\ settled' = "resolved"
    /\ UNCHANGED <<open, prefilling, prefillEnabled, overriddenFields, urgencyManual, urgencyDebounce,
                   requests, manual, lastIssued>>
    /\ UNCHANGED <<inp, out, ruleConfig, log, pc, settingsVars>>

prefillResolved(r) ==
    /\ r \in pending
    /\ LET result == ResponseTo(r)
           next == ApplySuggestions(form, result, overriddenFields, urgencyManual)
       IN  /\ prefillResult' = result
           /\ form' = next
           /\ prefilledFields' = FilledFields(form, result.suggestions, overriddenFields)
           /\ FormEffects(form, next, prefillEnabled, FALSE)
    /\ prefilling' = FALSE
    /\ pending' = pending \ {r}
    /\ settled' = "resolved"
    /\ UNCHANGED <<open, prefillEnabled, overriddenFields, urgencyManual, urgencyDebounce,
                   requests, manual, lastIssued>>
    /\ UNCHANGED <<inp, out, ruleConfig, log, pc, settingsVars>>

\* prefillRejected without the finally block.
prefillRejected_no_finally(r) ==
    /\ r \in pending
    /\ pending' = pending \ {r}
    /\ settled' = "rejected"
    /\ UNCHANGED <<open, form, prefillResult, prefilling, prefilledFields, prefillEnabled,
                   overriddenFields, urgencyManual, urgencyDebounce, qtyDebounce,
                   notesDebounce, requests, manual, lastIssued>>
    /\ UNCHANGED <<inp, out, ruleConfig, log, pc, settingsVars>>

\* A request in flight fails (the backend answers with an error status or
\* the fetch itself fails): the catch block swallows the error and the
\* finally block clears the indicator.
prefillRejected(r) ==
    /\ r \in pending
    /\ pending' = pending \ {r}
    /\ prefilling' = FALSE
    /\ settled' = "rejected"
    /\ UNCHANGED <<open, form, prefillResult, prefilledFields, prefillEnabled,
                   overriddenFields, urgencyManual, urgencyDebounce, qtyDebounce,
                   notesDebounce, requests, manual, lastIssued>>
    /\ UNCHANGED <<inp, out, ruleConfig, log, pc, settingsVars>>

\* The Smart Prefill switch.  Off: the prefilled fields and the slider go
\* back to their defaults and the overrides are dropped.  On: the handler
\* asks for suggestions and so does the context effect, which also drops
\* the overrides.
handlePrefillToggle(enabled) ==
    /\ open
    /\ enabled # prefillEnabled
    /\ prefillEnabled' = enabled
    /\ manual' = NoManual
    /\ IF ~enabled THEN
           LET next == [f \in DOMAIN form |->
                           IF f \in prefilledFields THEN DEFAULT_FORM[f]
                           ELSE IF f = "urgency" THEN 50
                           ELSE form[f]]
           IN  /\ form' = next
               /\ prefillResult' = NoOutput
               /\ prefilledFields' = {}
               /\ overriddenFields' = {}
               /\ urgencyManual' = NoValue
               /\ FormEffects(form, next, FALSE, FALSE)
               /\ UNCHANGED <<prefilling, pending, requests, lastIssued>>
       ELSE
           LET context == form.client_id # "" /\ form.symbol # ""
           IN  /\ triggerPrefill(
                     Request(requests + 1, form.client_id, form.symbol, NoValue,
                             form.order_notes, form.quantity, 0)
                       \cup Request(requests + 2, form.client_id, form.symbol, NoValue,
                                    form.order_notes, form.quantity, 0))
               /\ overriddenFields' = IF context THEN {} ELSE overriddenFields
               /\ urgencyManual' = IF context THEN NoValue ELSE urgencyManual
               /\ UNCHANGED <<form, prefillResult, prefilledFields, qtyDebounce,
                              notesDebounce>>
    /\ UNCHANGED <<open, urgencyDebounce, settled>>
    /\ UNCHANGED <<inp, out, ruleConfig, log, pc, settingsVars>>
    /\ WithinBudget'

\* What the trader does.
\* What follows without the trader: timers fire, requests are answered.
TicketReacts ==
    \/ urgencyDebounceFires
    \/ qtyDebounceFires
    \/ notesDebounceFires
    \/ \E r \in pending : prefillResolved(r)
    \/ \E r \in pending : prefillRejected(r)

NextTicket ==
    \/ openDialog
    \/ \E c \in Clients : update("client_id", c)
    \/ update("algo_type", "POV")
    \/ update("quantity", 4000)
    \/ \E u \in SliderValues : handleUrgencyChange(u)
    \/ urgencyDebounceFires
    \/ qtyDebounceFires
    \/ notesDebounceFires
    \/ \E r \in pending : prefillResolved(r)
    \/ \E r \in pending : prefillRejected(r)
    \/ \E enabled \in BOOLEAN : handlePrefillToggle(enabled)

SpecTicket == InitTicket /\ [][NextTicket]_vars

\* A request has left the set of requests in flight by failing.
FailureStep ==
    (settled' = "rejected" /\ pending' # pending /\ pending' \subseteq pending) =>
        /\ form' = form
        /\ prefilledFields' = prefilledFields
        /\ prefillResult' = prefillResult
        /\ prefilling' = FALSE
        /\ open' = open
        /\ SubmitEnabled(form') = SubmitEnabled(form)

\* C15: a failed prefill request applies nothing: every form field, the set
\* of prefilled fields and the last response stay as they were, the
\* prefilling indicator is cleared and the submit button is as enabled as
\* before.
PrefillFailureKeepsForm == [][FailureStep]_vars

\* Suggestions were applied, the trader typed a quantity, and the re-prefill
\* it caused failed: the ticket still shows VWAP and can be submitted.
PrefillFailureKeepsFormWitness ==
    /\ settled = "rejected"
    /\ ~prefilling
    /\ "algo_type" \in prefilledFields
    /\ form.algo_type = "VWAP"
    /\ form.quantity = 4000
    /\ SubmitEnabled(form)

\* C20: within one client+symbol context every field the trader changed by
\* hand, and the urgency once the slider was moved, keeps the trader's
\* value whatever prefill responses arrive.
ManualFieldsKept ==
    \A f \in DOMAIN manual : form[f] = manual[f]

\* ------------------------------------------------------------------------
\* Order ticket: typing notes and moving the urgency slider
\* ------------------------------------------------------------------------
NextDebounce ==
    \/ openDialog
    \/ \E c \in Clients : update("client_id", c)
    \/ \E t \in TypedNotes : update("order_notes", {t})
    \/ \E u \in SliderValues : handleUrgencyChange(u)
    \/ urgencyDebounceFires
    \/ qtyDebounceFires
    \/ notesDebounceFires
    \/ \E r \in pending : prefillResolved(r)
    \/ \E r \in pending : prefillRejected(r)

SpecDebounce == InitTicket /\ [][NextDebounce]_vars

\* The requests a step sends.
Sent == pending' \ pending

\* A step that changes the urgency timer is a slider move, which arms it
\* with the value the slider now shows and sends nothing, or the firing of
\* the timer, which sends one request with the value of the last move.
UrgencyDebounceStep ==
    urgencyDebounce' # urgencyDebounce =>
        \/ /\ urgencyDebounce' # NoTimer
           /\ urgencyDebounce'.urgency = form'.urgency
           /\ urgencyDebounce'.urgency # form.urgency
           /\ urgencyDebounce'.edits = EditsAfter(urgencyDebounce, TRUE)
           /\ Sent = {}
        \/ /\ urgencyDebounce' = NoTimer
           /\ form' = form
           /\ requests' <= requests + 1
           /\ \A r \in Sent : /\ r.urgency = urgencyDebounce.urgency
                               /\ r.burst = urgencyDebounce.edits
           /\ (urgencyDebounce.enabled /\ urgencyDebounce.client_id # "") =>
                 Cardinality(Sent) = 1

\* A step that changes the notes timer is a change of the notes, which
\* arms it with the notes the form now holds (or cancels it, without a
\* client or with Smart Prefill off) and sends nothing, or the firing of the
\* timer, which sends one request with the notes of the last edit.
NotesDebounceStep ==
    notesDebounce' # notesDebounce =>
        \/ /\ form'.order_notes # form.order_notes
           /\ notesDebounce' # NoTimer => notesDebounce'.order_notes = form'.order_notes
           /\ Sent = {}
        \/ /\ notesDebounce' = NoTimer
           /\ form' = form
           /\ Cardinality(Sent) = 1
           /\ requests' = requests + 1
           /\ \A r \in Sent : /\ r.order_notes = notesDebounce.order_notes
                               /\ r.burst = notesDebounce.edits

\* C21: however many edits a burst has, the timer of its source holds the
\* latest value, nothing is sent while the burst lasts, and the firing of
\* the timer sends exactly one request, which carries that value.
DebounceCoalesces ==
    [][/\ UrgencyDebounceStep
       /\ NotesDebounceStep
       /\ notesDebounce' # NoTimer => notesDebounce'.order_notes = form'.order_notes]_vars

\* After the client was chosen the trader typed "VWAP" and went on to "VWAP
\* must complete by 2pm" before the timer fired: one request went out for
\* the two edits, with the whole sentence.
DebounceCoalescesWitness ==
    /\ requests = 2
    /\ notesDebounce = NoTimer
    /\ lastIssued.burst = 2
    /\ lastIssued.order_notes = {"VWAP must complete by 2pm"}
    /\ lastIssued \in pending

\* ------------------------------------------------------------------------
\* Order ticket: overlapping requests
\* ------------------------------------------------------------------------
\* The step is the arrival of the response to request r.
Resolves(r) == pending' = pending \ {r} /\ settled' = "resolved"

\* C27: once the ticket shows the answer to the request issued last, the
\* answer to a request issued before it changes neither the displayed
\* result nor the form.
LatestRequestWins ==
    [][\A r \in pending :
          ( /\ Resolves(r)
            /\ lastIssued \notin pending
            /\ prefillResult = ResponseTo(lastIssued)
            /\ r.id < lastIssued.id )
          => (prefillResult' = prefillResult /\ form' = form)]_vars

\* ------------------------------------------------------------------------
\* Order ticket: Smart Prefill switched off
\* ------------------------------------------------------------------------
\* C28: in a step that begins and ends with Smart Prefill off, no request is
\* issued and the arrival of a response leaves the form, the urgency
\* included, as it was.
PrefillOffIsQuiet ==
    [][(~prefillEnabled /\ ~prefillEnabled') =>
          /\ requests' = requests
          /\ \A r \in pending : Resolves(r) => form' = form]_vars

\* ------------------------------------------------------------------------
\* Order ticket: what follows an edit comes to an end
\* ------------------------------------------------------------------------
\* The promise of a request in flight settles: the request is answered or
\* it fails.
PrefillSettles == \E r \in pending : prefillRejected(r) \/ prefillResolved(r)

\* A timer that is armed fires when its delay is over and the promise of a
\* request in flight settles.
SpecTicketFair ==
    /\ SpecTicket
    /\ WF_vars(urgencyDebounceFires)
    /\ WF_vars(qtyDebounceFires)
    /\ WF_vars(notesDebounceFires)
    /\ WF_vars(PrefillSettles)

\* Nothing is in flight, no timer is armed and the indicator is off.
Quiescent ==
    /\ pending = {}
    /\ urgencyDebounce = NoTimer
    /\ qtyDebounce = NoTimer
    /\ notesDebounce = NoTimer
    /\ ~prefilling

\* C29: whatever the trader has done, the timers and the responses that
\* follow, the requests caused by a response that wrote the quantity or the
\* notes included, come to an end: again and again the ticket is quiescent.
EditChainTerminates == []<>Quiescent

\* The trader chose the client and did nothing else: the response wrote the
\* quantity and the notes, the two timers this armed sent a request each,
\* and the ticket is quiescent after three requests.
EditChainTerminatesWitness ==
    /\ Quiescent
    /\ requests = 3
    /\ manual = NoManual
    /\ form.quantity = 4000
    /\ form.order_notes # {}

\* ------------------------------------------------------------------------
\* The rule-configuration page
\* ------------------------------------------------------------------------
\* The tabs of the page: the one shown first, which holds none of the keys
\* modelled, and the two that hold one each.
Categories == {"urgency", "limit_price", "get_done"}

CategoryOf(k) == IF k = "get_done_urgency" THEN "get_done" ELSE "limit_price"

\* byCategory[tab]: the keys listed under a tab.
currentItems(tab) == {k \in ConfigKeys : CategoryOf(k) = tab}

\* isModified: the key has an edit that differs from the value loaded.
isModified(k) == k \in DOMAIN edits /\ edits[k] # ruleConfig[k]

\* The edits restricted to a set of keys.
EditsOf(keys) == [k \in (DOMAIN edits) \cap keys |-> edits[k]]

InitSettings ==
    /\ inp = WalkthroughExample
    /\ out = NoOutput
    /\ ruleConfig = DefaultRuleConfig
    /\ log = <<>>
    /\ pc = "idle"
    /\ TicketUnmounted
    /\ SettingsUnmounted

\* The trader shows another tab.
setActiveTab(tab) ==
    /\ tab # activeTab
    /\ activeTab' = tab
    /\ UNCHANGED <<edits, saveMutation>>
    /\ UNCHANGED <<inp, out, ruleConfig, log, pc, ticketVars>>

\* The trader types a value into the input of a key of the tab shown: an
\* edit is recorded, or dropped when the value is the one loaded.
handleValueChange(key, parsed) ==
    /\ key \in currentItems(activeTab)
    /\ edits' = IF parsed = ruleConfig[key]
                THEN [k \in (DOMAIN edits) \ {key} |-> edits[k]]
                ELSE [k \in (DOMAIN edits) \cup {key} |->
                        IF k = key THEN parsed ELSE edits[k]]
    /\ edits' # edits
    /\ UNCHANGED <<activeTab, saveMutation>>
    /\ UNCHANGED <<inp, out, ruleConfig, log, pc, ticketVars>>

\* saveMutation.mutate(updates) from a handler.
Mutating(updates, handler) ==
    [status |-> "pending", variables |-> updates, handler |-> handler, tab |-> activeTab]

\* "Save" of the tab shown: the modified values of its keys are sent.  The
\* button is disabled while a save is pending.
handleSaveCategory ==
    LET updates == EditsOf({k \in currentItems(activeTab) : isModified(k)})
    IN  /\ saveMutation.status # "pending"
        /\ DOMAIN updates # {}
        /\ saveMutation' = Mutating(updates, "handleSaveCategory")
        /\ UNCHANGED <<activeTab, edits>>
        /\ UNCHANGED <<inp, out, ruleConfig, log, pc, ticketVars>>

\* "Save All": every edit is sent.
handleSaveAll ==
    /\ saveMutation.status # "pending"
    /\ DOMAIN edits # {}
    /\ saveMutation' = Mutating(edits, "handleSaveAll")
    /\ UNCHANGED <<activeTab, edits>>
    /\ UNCHANGED <<inp, out, ruleConfig, log, pc, ticketVars>>

\* The save succeeds: the server stores the values sent, onSuccess empties
\* the edits and the configuration is fetched again.
saveSucceeds ==
    /\ saveMutation.status = "pending"
    /\ ruleConfig' = [k \in ConfigKeys |->
                        IF k \in DOMAIN saveMutation.variables
                        THEN saveMutation.variables[k] ELSE ruleConfig[k]]
    /\ edits' = NoEdits
    /\ saveMutation' = [saveMutation EXCEPT !.status = "success"]
    /\ UNCHANGED activeTab
    /\ UNCHANGED <<inp, out, log, pc, ticketVars>>

\* The save fails: onError reports it and the edits stay.
saveFails ==
    /\ saveMutation.status = "pending"
    /\ saveMutation' = [saveMutation EXCEPT !.status = "error"]
    /\ UNCHANGED <<activeTab, edits>>
    /\ UNCHANGED <<inp, out, ruleConfig, log, pc, ticketVars>>

\* "Reset" confirmed and successful: every key returns to its factory
\* default and the edits are emptied.
handleReset ==
    /\ ruleConfig' = DefaultRuleConfig
    /\ edits' = NoEdits
    /\ <<ruleConfig', edits'>> # <<ruleConfig, edits>>
    /\ UNCHANGED <<activeTab, saveMutation>>
    /\ UNCHANGED <<inp, out, log, pc, ticketVars>>

NextSettings ==
    \/ \E tab \in Categories : setActiveTab(tab)
    \/ \E k \in ConfigKeys : \E v \in ConfigValues(k) : handleValueChange(k, v)
    \/ handleSaveCategory
    \/ handleSaveAll
    \/ saveSucceeds
    \/ saveFails
    \/ handleReset

SpecSettings == InitSettings /\ [][NextSettings]_vars

\* The keys of the tabs other than the one a save was started from.
OtherCategories(tab) == ConfigKeys \ currentItems(tab)

\* C30: a save of the tab shown sends only modified values of that tab, and
\* when it succeeds the edits of the other tabs are still in the edits map.
SaveCategoryKeepsOtherEdits ==
    [][/\ ( /\ saveMutation' # saveMutation
            /\ saveMutation'.status = "pending"
            /\ saveMutation'.handler = "handleSaveCategory" )
          => /\ DOMAIN saveMutation'.variables \subseteq currentItems(activeTab)
             /\ \A k \in DOMAIN saveMutation'.variables : isModified(k)
             /\ edits' = edits
       /\ ( /\ saveMutation.status = "pending"
            /\ saveMutation.handler = "handleSaveCategory"
            /\ saveMutation'.status = "success" )
          => EditsOf(OtherCategories(saveMutation.tab))' =
             EditsOf(OtherCategories(saveMutation.tab))]_vars

====
